---- MODULE Spec2Model ----
(***************************************************************************)
(* Model of the low-level keyboard and mouse hook procedures of            *)
(* Source/hook_include.cpp (AutoHotkey): physical/logical modifier         *)
(* tracking, the driver shift-key workaround, the four-case prefix/suffix  *)
(* state machine, modifier disguising and the built-in alt-tab actions.    *)
(*                                                                         *)
(* The file is compiled twice (INCLUDE_KEYBD_HOOK defined or not); the two *)
(* procedures share the globals.  Every handler is one action: the events  *)
(* it sends with KeyEvent() re-enter LowLevelKeybdProc before it returns   *)
(* and are part of the same step.                                          *)
(***************************************************************************)
EXTENDS Integers, Sequences, FiniteSets, TLC

\* ------------------------------------------------------------------------
\* Virtual keys, scan codes, modifier bits, hotkey ids
\* ------------------------------------------------------------------------
VK_LBUTTON == 1
VK_RBUTTON == 2
VK_MBUTTON == 4
VK_TAB == 9
VK_CLEAR == 12
VK_SHIFT == 16
VK_CONTROL == 17
VK_MENU == 18
VK_CAPITAL == 20
VK_PRIOR == 33
VK_NEXT == 34
VK_END == 35
VK_HOME == 36
VK_LEFT == 37
VK_UP == 38
VK_RIGHT == 39
VK_DOWN == 40
VK_INSERT == 45
VK_DELETE == 46
VK_A == 65
VK_L == 76
VK_LWIN == 91
VK_RWIN == 92
VK_NUMPAD0 == 96
VK_NUMPAD1 == 97
VK_NUMPAD2 == 98
VK_NUMPAD3 == 99
VK_NUMPAD4 == 100
VK_NUMPAD5 == 101
VK_NUMPAD6 == 102
VK_NUMPAD7 == 103
VK_NUMPAD8 == 104
VK_NUMPAD9 == 105
VK_DECIMAL == 110
VK_NUMLOCK == 144
VK_WHEEL_DOWN == 158
VK_WHEEL_UP == 159
VK_LSHIFT == 160
VK_RSHIFT == 161
VK_LCONTROL == 162
VK_RCONTROL == 163
VK_LMENU == 164
VK_RMENU == 165

\* Scan codes; bit 0x100 marks an extended key.
SC_EXTENDED == 256
SC_LSHIFT == 42
SC_RSHIFT == 310
SC_LCONTROL == 29
SC_RCONTROL == 285
SC_LALT == 56
SC_RALT == 312

\* modLR_type: a left/right modifier mask is modelled as a set of these bits.
MOD_LCONTROL == "LCONTROL"
MOD_RCONTROL == "RCONTROL"
MOD_LALT == "LALT"
MOD_RALT == "RALT"
MOD_LSHIFT == "LSHIFT"
MOD_RSHIFT == "RSHIFT"
MOD_LWIN == "LWIN"
MOD_RWIN == "RWIN"

\* Hotkey ids: id_with_flags carries HOTKEY_NO_SUPPRESS in its top bit.
HOTKEY_NO_SUPPRESS == 32768
HOTKEY_ID_MASK == 32767
HOTKEY_ID_INVALID == 32767
HOTKEY_ID_ALT_TAB == 32766
HOTKEY_ID_ALT_TAB_SHIFT == 32765
HOTKEY_ID_ALT_TAB_MENU == 32764
HOTKEY_ID_ALT_TAB_AND_MENU == 32763
HOTKEY_ID_ALT_TAB_MENU_DISMISS == 32762

\* was_just_used
UNUSED == 0
AS_PREFIX == 1
AS_PREFIX_FOR_HOTKEY == 2

SHIFT_KEY_WORKAROUND_TIMEOUT == 22

\* pad_state indices
PAD_DECIMAL == 0
PAD_NUMPAD0 == 1
PAD_NUMPAD1 == 2
PAD_NUMPAD2 == 3
PAD_NUMPAD3 == 4
PAD_NUMPAD4 == 5
PAD_NUMPAD5 == 6
PAD_NUMPAD6 == 7
PAD_NUMPAD7 == 8
PAD_NUMPAD8 == 9
PAD_NUMPAD9 == 10

\* Bound of the model: the tick difference GetTickCount() - prior_event_tickcount
\* is tracked up to this value (everything above behaves alike).
MaxElapsed == 23

\* Key records: kvk[vk] and ksc[sc] are distinct arrays of key_type.
NULL == <<"NULL", 0>>
KVK(vk) == <<"kvk", vk>>
KSC(sc) == <<"ksc", sc>>

\* ------------------------------------------------------------------------
\* Small helpers
\* ------------------------------------------------------------------------
\* a[k] = b for an array of bools kept as the set of its true indices
SetBit(S, k, b) == IF b THEN S \cup {k} ELSE S \ {k}

Min(a, b) == IF a < b THEN a ELSE b


\* ------------------------------------------------------------------------
\* State
\* ------------------------------------------------------------------------
VARIABLES
  cfg,                               \* name of the hotkey configuration in use
  conf,                              \* the hotkey configuration itself
  g_modifiersLR_logical,             \* modifiers the system believes are down
  g_modifiersLR_physical,            \* modifiers the user is holding
  g_PhysicalKeyState,                \* set of vk whose g_PhysicalKeyState[] is true
  g_TimeLastInputPhysical,           \* TRUE iff it holds the time of the latest event
  pad_state,                         \* set of PAD_ indices whose pad_state[] is true
  next_phys_shift_down_is_not_phys,
  prior_vk, prior_sc, prior_event_was_key_up, prior_event_was_physical,
  elapsed,                           \* GetTickCount() - prior_event_tickcount
  prior_modifiersLR_physical, prior_shift_state, prior_lshift_state,
  pPrefixKey,                        \* key record id, or NULL
  key,                               \* run-time flags of the prefix/suffix key records
  alt_tab_menu_is_visible,
  disguise_next_lwin_up, disguise_next_rwin_up,
  disguise_next_lalt_up, disguise_next_ralt_up,
  g_KeyHistory,                      \* event_type of each slot of the key history ring
  g_KeyHistoryNext,                  \* the slot the next event is written to
  out,                               \* what the latest handler did (event, verdict, emissions, posts)
  scn                                \* events since start while they follow the configuration's scenario

vars == <<cfg, conf, g_modifiersLR_logical, g_modifiersLR_physical, g_PhysicalKeyState,
          g_TimeLastInputPhysical, pad_state, next_phys_shift_down_is_not_phys,
          prior_vk, prior_sc, prior_event_was_key_up, prior_event_was_physical,
          elapsed, prior_modifiersLR_physical, prior_shift_state, prior_lshift_state,
          pPrefixKey, key, alt_tab_menu_is_visible,
          disguise_next_lwin_up, disguise_next_rwin_up,
          disguise_next_lalt_up, disguise_next_ralt_up, g_KeyHistory, g_KeyHistoryNext, out, scn>>

\* ------------------------------------------------------------------------
\* Hotkey configurations (built outside this file by the hotkey compiler;
\* the hook only reads them).
\* ------------------------------------------------------------------------
NoKey == [is_down |-> FALSE, down_performed_action |-> FALSE, was_just_used |-> UNUSED,
          it_put_alt_down |-> FALSE, it_put_shift_down |-> FALSE]

\* A keyboard key as the driver reports it: vkCode, scanCode, LLKHF_EXTENDED
K(vk, sc, ext) == [vkCode |-> vk, scanCode |-> sc, extended |-> ext]

BaseProfile ==
  [os |-> "XP", prefix |-> {}, suffix |-> {}, toggle |-> {},
   ModifierVK |-> <<>>, ModifierSC |-> <<>>, kvkm |-> {}, kscm |-> {},
   no_mouse_suppress |-> {}, sc_takes_precedence |-> {},
   keys |-> {}, mouse |-> {VK_LBUTTON}, origins |-> {"phys"},
   dts |-> {0}, numlock |-> {TRUE}, script |-> <<>>,
   \* MAX_HISTORY_KEYS; 0 stands for a ring longer than any chain of emissions, in which
   \* no slot is written twice during one event and whose write index is not followed
   history |-> 0]

\* An entry of a Kvkm/Kscm table, or of a ModifierVK/ModifierSC list
HK(mods, k, id) == [mods |-> mods, k |-> k, id_with_flags |-> id]
MV(rec, k, id) == [rec |-> rec, k |-> k, id_with_flags |-> id]

\* An input event of a scenario
KE(k, up, dt) == [hook |-> "keybd", vkCode |-> k.vkCode, scanCode |-> k.scanCode, extended |-> k.extended, up |-> up, injected |-> FALSE, ignore |-> FALSE, dt |-> dt, numlock |-> TRUE]
ME(vk, up) == [hook |-> "mouse", vk |-> vk, up |-> up, injected |-> FALSE, ignore |-> FALSE, dt |-> 0]

kLSHIFT == K(VK_LSHIFT, SC_LSHIFT, FALSE)
kEND == K(VK_END, 79, FALSE)

\* S1: no hotkeys; shift with a dual-state numpad key, Numlock on
ProfileS1 ==
  [BaseProfile EXCEPT
     !.keys = {kLSHIFT, kEND},
     !.dts = {0, SHIFT_KEY_WORKAROUND_TIMEOUT},
     !.mouse = {VK_LBUTTON},
     !.script = << {KE(kLSHIFT, FALSE, 0)}, {KE(kEND, FALSE, SHIFT_KEY_WORKAROUND_TIMEOUT)},
                   {KE(kLSHIFT, TRUE, 0)}, {KE(kEND, TRUE, 0)},
                   {KE(kLSHIFT, FALSE, 0)}, {KE(kLSHIFT, TRUE, SHIFT_KEY_WORKAROUND_TIMEOUT)} >>]

\* Shift and numpad keys from every origin, around the 22 ms window
kRSHIFT == K(VK_RSHIFT, 54, TRUE)
ProfileShift ==
  [BaseProfile EXCEPT
     !.keys = {kLSHIFT, kRSHIFT, kEND},
     !.origins = {"phys", "inj"},
     !.dts = {0, SHIFT_KEY_WORKAROUND_TIMEOUT + 1}]

\* Ctrl-Alt-Del on Windows 2000, no hotkeys
kLCONTROL == K(VK_LCONTROL, 29, FALSE)
kLMENU == K(VK_LMENU, 56, FALSE)
kDELETE == K(VK_DELETE, 83, TRUE)
ProfileCAD ==
  [BaseProfile EXCEPT !.os = "2000", !.keys = {kLCONTROL, kLMENU, kDELETE}]

\* A hotkey "modifiers + A" with id 10, and its round trip
kA == K(VK_A, 30, FALSE)
kLWIN == K(VK_LWIN, 91, TRUE)
kRWIN == K(VK_RWIN, 92, TRUE)
ProfileRT(modkeys, mods) ==
  [BaseProfile EXCEPT
     !.keys = modkeys \cup {kA},
     !.suffix = {KVK(VK_A)},
     !.kvkm = {HK(mods, VK_A, 10)},
     !.script = << {KE(k, FALSE, 0) : k \in modkeys}, {KE(kA, FALSE, 0)}, {KE(kA, TRUE, 0)},
                   {KE(k, TRUE, 0) : k \in modkeys} >>]

\* S2: "CapsLock & A" with id 42; CapsLock's force-toggle setting is NEUTRAL unless the user
\* asked for AlwaysOn/AlwaysOff
kCAPS == K(VK_CAPITAL, 58, FALSE)
ProfileS2(mode) ==
  [BaseProfile EXCEPT
     !.keys = {kCAPS, kA},
     !.origins = {"phys", "ign"},
     !.prefix = {KVK(VK_CAPITAL)},
     !.suffix = {KVK(VK_A)},
     !.toggle = {[vk |-> VK_CAPITAL, mode |-> mode]},
     !.ModifierVK = << MV(KVK(VK_A), VK_CAPITAL, 42) >>,
     !.script = << {KE(kCAPS, FALSE, 0)}, {KE(kA, FALSE, 0)}, {KE(kA, TRUE, 0)}, {KE(kCAPS, TRUE, 0)} >>]

\* Two custom prefixes: "CapsLock & A" with id 42 and "LControl & B" with id 43
kB == K(66, 48, FALSE)
ProfilePFX ==
  [BaseProfile EXCEPT
     !.keys = {kCAPS, kLCONTROL, kA, kB},
     !.prefix = {KVK(VK_CAPITAL), KVK(VK_LCONTROL)},
     !.suffix = {KVK(VK_A), KVK(66)},
     !.toggle = {[vk |-> VK_CAPITAL, mode |-> "NEUTRAL"]},
     !.ModifierVK = << MV(KVK(VK_A), VK_CAPITAL, 42), MV(KVK(66), VK_LCONTROL, 43) >>]

\* "RControl & RShift = AltTab" with "RShift & RControl = ShiftAltTab"
kRCONTROL == K(VK_RCONTROL, 29, TRUE)
ProfileAltTab ==
  [BaseProfile EXCEPT
     !.keys = {kRCONTROL, kRSHIFT},
     !.prefix = {KVK(VK_RCONTROL), KVK(VK_RSHIFT)},
     !.suffix = {KVK(VK_RCONTROL), KVK(VK_RSHIFT)},
     !.ModifierVK = << MV(KVK(VK_RSHIFT), VK_RCONTROL, HOTKEY_ID_ALT_TAB),
                       MV(KVK(VK_RCONTROL), VK_RSHIFT, HOTKEY_ID_ALT_TAB_SHIFT) >>]

\* "LWin & A" as a custom hotkey with id 30, or as AltTab
ProfileWinPrefix(id) ==
  [BaseProfile EXCEPT
     !.keys = {kLWIN, kA},
     !.prefix = {KVK(VK_LWIN)},
     !.suffix = {KVK(VK_A)},
     !.ModifierVK = << MV(KVK(VK_A), VK_LWIN, id) >>,
     !.script = << {KE(kLWIN, FALSE, 0)}, {KE(kLWIN, TRUE, 0)} >>]

\* S4: "MButton::AltTabMenu" with "WheelDown::AltTab"
ProfileS4 ==
  [BaseProfile EXCEPT
     !.keys = {kA},
     !.mouse = {VK_MBUTTON, VK_WHEEL_DOWN},
     !.suffix = {KVK(VK_MBUTTON), KVK(VK_WHEEL_DOWN)},
     !.kvkm = {HK({}, VK_MBUTTON, HOTKEY_ID_ALT_TAB_MENU), HK({}, VK_WHEEL_DOWN, HOTKEY_ID_ALT_TAB)},
     !.script = << {ME(VK_MBUTTON, FALSE)}, {ME(VK_WHEEL_DOWN, FALSE)}, {ME(VK_WHEEL_DOWN, FALSE)},
                   {ME(VK_MBUTTON, TRUE)}, {ME(VK_MBUTTON, FALSE)} >>]

\* NumLock as a prefix ("NumLock & A" with id 50), as a suffix ("NumLock::" with id 51, or
\* with the no-suppress flag), or in no hotkey at all; mode is its force-toggle setting
ProfileNum(mode, prefix, kvkm) ==
  [BaseProfile EXCEPT
     !.keys = {K(VK_NUMLOCK, 69, TRUE), kA},
     !.origins = {"phys", "ign"},
     !.prefix = IF prefix THEN {KVK(VK_NUMLOCK)} ELSE {},
     !.suffix = (IF prefix THEN {KVK(VK_A)} ELSE {}) \cup {KVK(h.k) : h \in kvkm},
     !.toggle = {[vk |-> VK_NUMLOCK, mode |-> mode]},
     !.ModifierVK = IF prefix THEN << MV(KVK(VK_A), VK_NUMLOCK, 50) >> ELSE <<>>,
     !.kvkm = kvkm]

Profile(name) ==
  CASE name = "S1" -> ProfileS1
    [] name = "Shift" -> ProfileShift
    [] name = "CAD" -> ProfileCAD
    [] name = "RT_WIN" -> ProfileRT({kLWIN}, {MOD_LWIN})
    [] name = "RT_ALT" -> ProfileRT({kLMENU}, {MOD_LALT})
    [] name = "RT_WIN_SHIFT" -> [ProfileRT({kLWIN}, {MOD_LWIN}) EXCEPT !.keys = {kLWIN, kA, kLSHIFT}, !.script = <<>>]
    [] name = "RT_ALT_SHIFT" -> [ProfileRT({kLMENU}, {MOD_LALT}) EXCEPT !.keys = {kLMENU, kA, kRSHIFT}, !.script = <<>>]
    [] name = "WIN_SHIFT" -> [ProfileWinPrefix(30) EXCEPT !.keys = {kLWIN, kA, kLSHIFT, kRSHIFT}, !.script = <<>>]
    [] name = "RT_CTRL" -> ProfileRT({kLCONTROL}, {MOD_LCONTROL})
    [] name = "RT_CTRLALT" -> ProfileRT({kLCONTROL, kLMENU}, {MOD_LCONTROL, MOD_LALT})
    [] name = "RT_WINWIN" -> ProfileRT({kLWIN, kRWIN}, {MOD_LWIN, MOD_RWIN})
    [] name = "RT_WINALT" -> ProfileRT({kLWIN, kLMENU}, {MOD_LWIN, MOD_LALT})
    [] name = "S2" -> ProfileS2("NEUTRAL")
    [] name = "S2_OFF" -> ProfileS2("ALWAYSOFF")
    [] name = "PFX" -> ProfilePFX
    [] name = "AltTab" -> ProfileAltTab
    [] name = "WinPrefix" -> ProfileWinPrefix(30)
    [] name = "WinAltTab" -> ProfileWinPrefix(HOTKEY_ID_ALT_TAB)
    [] name = "S4" -> ProfileS4
    [] name = "WINSFX" -> [BaseProfile EXCEPT !.keys = {kLWIN, kLCONTROL, kA}, !.prefix = {KVK(VK_LCONTROL)},
                                              !.suffix = {KVK(VK_A), KVK(VK_LWIN)},
                                              !.ModifierVK = << MV(KVK(VK_LWIN), VK_LCONTROL, 60) >>,
                                              !.kvkm = {HK({MOD_LWIN}, VK_A, 61)}]
    [] name = "DISMISS" -> [ProfileS2("NEUTRAL") EXCEPT !.ModifierVK = << MV(KVK(VK_A), VK_CAPITAL, HOTKEY_ID_ALT_TAB_MENU_DISMISS) >>,
                                                       !.script = <<>>]
    [] name = "CAPS_TAB" -> [ProfileS2("NEUTRAL") EXCEPT !.ModifierVK = << MV(KVK(VK_A), VK_CAPITAL, HOTKEY_ID_ALT_TAB) >>,
                                                           !.keys = {kCAPS, kA, kB}, !.script = <<>>]
    [] name = "WIN3" -> [ProfileWinPrefix(30) EXCEPT !.keys = {kLWIN, kA, kB}, !.script = <<>>]
    [] name = "TAB3" -> [ProfileAltTab EXCEPT !.keys = {kRCONTROL, kRSHIFT, kCAPS},
                                              !.prefix = {KVK(VK_RCONTROL), KVK(VK_RSHIFT), KVK(VK_CAPITAL)},
                                              !.suffix = {KVK(VK_RCONTROL), KVK(VK_RSHIFT), KVK(66)},
                                              !.ModifierVK = << MV(KVK(VK_RSHIFT), VK_RCONTROL, HOTKEY_ID_ALT_TAB),
                                                                MV(KVK(VK_RCONTROL), VK_RSHIFT, HOTKEY_ID_ALT_TAB_SHIFT),
                                                                MV(KVK(66), VK_CAPITAL, 44) >>]
    [] name = "OWN_MOD" -> [BaseProfile EXCEPT !.keys = {kRSHIFT, kA, kLCONTROL}, !.prefix = {KVK(VK_RSHIFT)},
                                               !.suffix = {KVK(VK_A), KVK(VK_RSHIFT)},
                                               !.ModifierVK = << MV(KVK(VK_A), VK_RSHIFT, 82) >>,
                                               !.kvkm = {HK({}, VK_RSHIFT, 80)}]
    [] name = "OWN_KEY" -> [BaseProfile EXCEPT !.keys = {kB, kA, kLCONTROL}, !.prefix = {KVK(66)},
                                               !.suffix = {KVK(VK_A), KVK(66)},
                                               !.ModifierVK = << MV(KVK(VK_A), 66, 83) >>,
                                               !.kvkm = {HK({MOD_LCONTROL}, 66, 85)}]
    [] name = "OWN_CAPS" -> [BaseProfile EXCEPT !.keys = {kCAPS, kA, kLCONTROL}, !.prefix = {KVK(VK_CAPITAL)},
                                                !.suffix = {KVK(VK_A), KVK(VK_CAPITAL)},
                                                !.toggle = {[vk |-> VK_CAPITAL, mode |-> "NEUTRAL"]},
                                                !.ModifierVK = << MV(KVK(VK_A), VK_CAPITAL, 42) >>,
                                                !.kvkm = {HK({MOD_LCONTROL}, VK_CAPITAL, 81)}]
    [] name = "NS_KEY" -> [BaseProfile EXCEPT !.keys = {kB, kA}, !.prefix = {KVK(66)},
                                              !.suffix = {KVK(VK_A), KVK(66)},
                                              !.ModifierVK = << MV(KVK(VK_A), 66, 83) >>,
                                              !.kvkm = {HK({}, 66, 86 + HOTKEY_NO_SUPPRESS), HK({}, VK_A, 87 + HOTKEY_NO_SUPPRESS)}]
    [] name = "NS_CAPS" -> [BaseProfile EXCEPT !.keys = {kCAPS, kA}, !.prefix = {KVK(VK_CAPITAL)},
                                               !.suffix = {KVK(VK_A), KVK(VK_CAPITAL)},
                                               !.toggle = {[vk |-> VK_CAPITAL, mode |-> "NEUTRAL"]},
                                               !.ModifierVK = << MV(KVK(VK_A), VK_CAPITAL, 42) >>,
                                               !.kvkm = {HK({}, VK_CAPITAL, 88 + HOTKEY_NO_SUPPRESS)}]
    [] name = "NS_CAPS_ON" -> [BaseProfile EXCEPT !.keys = {kCAPS, kA}, !.prefix = {KVK(VK_CAPITAL)},
                                                  !.suffix = {KVK(VK_A), KVK(VK_CAPITAL)},
                                                  !.toggle = {[vk |-> VK_CAPITAL, mode |-> "ALWAYSON"]},
                                                  !.ModifierVK = << MV(KVK(VK_A), VK_CAPITAL, 42) >>,
                                                  !.kvkm = {HK({}, VK_CAPITAL, 88 + HOTKEY_NO_SUPPRESS)}]
    [] name = "MOUSE" -> [BaseProfile EXCEPT !.keys = {kLCONTROL}, !.mouse = {VK_MBUTTON, VK_RBUTTON},
                                             !.prefix = {KVK(VK_MBUTTON)}, !.suffix = {KVK(VK_RBUTTON)},
                                             !.ModifierVK = << MV(KVK(VK_RBUTTON), VK_MBUTTON, 70) >>,
                                             !.kvkm = {HK({}, VK_RBUTTON, 71 + HOTKEY_NO_SUPPRESS), HK({MOD_LCONTROL}, VK_RBUTTON, 72)},
                                             !.no_mouse_suppress = {KVK(VK_RBUTTON)},
                                             !.script = << {KE(kLCONTROL, FALSE, 0)}, {ME(VK_RBUTTON, FALSE)},
                                                           {KE(kLCONTROL, TRUE, 0)}, {ME(VK_RBUTTON, TRUE)},
                                                           {ME(VK_RBUTTON, FALSE)}, {KE(kLCONTROL, FALSE, 0)},
                                                           {ME(VK_RBUTTON, TRUE)} >>]
    [] name = "PAD" -> [BaseProfile EXCEPT !.keys = {kEND, K(VK_END, 79, TRUE), K(VK_NUMPAD1, 79, FALSE), kLSHIFT},
                                           !.numlock = {TRUE, FALSE}]
    [] name \in {"RING1", "RING2", "RING3"} ->
         [BaseProfile EXCEPT !.keys = {K(VK_RMENU, 56, TRUE), IF name = "RING2" THEN kLMENU ELSE kA, K(VK_TAB, 15, FALSE)},
                             !.prefix = {KVK(VK_RMENU)},
                             !.suffix = {KVK(VK_A), KVK(VK_RMENU)},
                             !.ModifierVK = << MV(KVK(VK_A), VK_RMENU, 82) >>,
                             !.kvkm = {HK({}, VK_RMENU, 80), HK({}, VK_A, 87 + HOTKEY_NO_SUPPRESS)},
                             !.history = CASE name = "RING1" -> 1 [] name = "RING2" -> 2 [] OTHER -> 3]
    [] name = "RING_NUM" -> [ProfileNum("NEUTRAL", FALSE, {HK({}, VK_NUMLOCK, 52 + HOTKEY_NO_SUPPRESS)}) EXCEPT !.history = 3]
    [] name = "RING_TAB" -> [ProfileAltTab EXCEPT !.history = 2]
    [] name = "RING_S4" -> [ProfileS4 EXCEPT !.history = 1]
    [] name = "TABKEY" -> [BaseProfile EXCEPT !.keys = {K(VK_TAB, 15, FALSE), kLMENU, K(VK_RMENU, 56, TRUE), kLCONTROL},
                                              !.origins = {"phys", "inj"}]
    [] name = "WINL" -> [BaseProfile EXCEPT !.keys = {kLWIN, kRWIN, K(VK_L, 38, FALSE)}, !.origins = {"phys", "inj"}]
    [] name = "NUM_PFX" -> ProfileNum("NEUTRAL", TRUE, {})
    [] name = "NUM_PFX_ON" -> ProfileNum("ALWAYSON", TRUE, {})
    [] name = "NUM_FORCED" -> ProfileNum("ALWAYSON", FALSE, {})
    [] name = "NUM_SFX" -> ProfileNum("NEUTRAL", FALSE, {HK({}, VK_NUMLOCK, 51)})
    [] name = "NUM_NOSUP" -> ProfileNum("NEUTRAL", FALSE, {HK({}, VK_NUMLOCK, 52 + HOTKEY_NO_SUPPRESS)})

C == conf

\* kvk[vk].as_modifiersLR / ksc[sc].as_modifiersLR
VkAsModifiersLR(vk) ==
  CASE vk = VK_LSHIFT -> {MOD_LSHIFT}
    [] vk = VK_RSHIFT -> {MOD_RSHIFT}
    [] vk = VK_SHIFT -> {MOD_LSHIFT, MOD_RSHIFT}
    [] vk = VK_LCONTROL -> {MOD_LCONTROL}
    [] vk = VK_RCONTROL -> {MOD_RCONTROL}
    [] vk = VK_CONTROL -> {MOD_LCONTROL, MOD_RCONTROL}
    [] vk = VK_LMENU -> {MOD_LALT}
    [] vk = VK_RMENU -> {MOD_RALT}
    [] vk = VK_MENU -> {MOD_LALT, MOD_RALT}
    [] vk = VK_LWIN -> {MOD_LWIN}
    [] vk = VK_RWIN -> {MOD_RWIN}
    [] OTHER -> {}

ScAsModifiersLR(sc) ==
  CASE sc = SC_LSHIFT -> {MOD_LSHIFT}
    [] sc = SC_RSHIFT -> {MOD_RSHIFT}
    [] sc = SC_LCONTROL -> {MOD_LCONTROL}
    [] sc = SC_RCONTROL -> {MOD_RCONTROL}
    [] sc = SC_LALT -> {MOD_LALT}
    [] sc = SC_RALT -> {MOD_RALT}
    [] OTHER -> {}

as_modifiersLR(rec) == IF rec[1] = "kvk" THEN VkAsModifiersLR(rec[2]) ELSE IF rec[1] = "ksc" THEN ScAsModifiersLR(rec[2]) ELSE {}
used_as_prefix(rec) == rec \in C.prefix
used_as_suffix(rec) == rec \in C.suffix
no_mouse_suppress(rec) == rec \in C.no_mouse_suppress
sc_takes_precedence(sc) == sc \in C.sc_takes_precedence

\* *kvk[vk].pForceToggle, or "NULL" when the key has no pForceToggle
ForceToggle(vk) ==
  IF \E t \in C.toggle : t.vk = vk THEN (CHOOSE t \in C.toggle : t.vk = vk).mode ELSE "NULL"

ModifierVK(rec) == SelectSeq(C.ModifierVK, LAMBDA m : m.rec = rec)
ModifierSC(rec) == SelectSeq(C.ModifierSC, LAMBDA m : m.rec = rec)

\* Kvkm(mods, vk) and Kscm(mods, sc): id_with_flags of the hotkey, HOTKEY_ID_INVALID if none
Kvkm(mods, vk) ==
  IF \E h \in C.kvkm : h.mods = mods /\ h.k = vk THEN (CHOOSE h \in C.kvkm : h.mods = mods /\ h.k = vk).id_with_flags ELSE HOTKEY_ID_INVALID
Kscm(mods, sc) ==
  IF \E h \in C.kscm : h.mods = mods /\ h.k = sc THEN (CHOOSE h \in C.kscm : h.mods = mods /\ h.k = sc).id_with_flags ELSE HOTKEY_ID_INVALID

\* g_vk_to_sc[vk].a: the scan code KeyEvent() and the hook assume for a vk that comes without one
g_vk_to_sc(vk) ==
  CASE vk = VK_LSHIFT \/ vk = VK_SHIFT -> SC_LSHIFT
    [] vk = VK_RSHIFT -> SC_RSHIFT
    [] vk = VK_LCONTROL \/ vk = VK_CONTROL -> SC_LCONTROL
    [] vk = VK_RCONTROL -> SC_RCONTROL
    [] vk = VK_LMENU \/ vk = VK_MENU -> SC_LALT
    [] vk = VK_RMENU -> SC_RALT
    [] OTHER -> 1

\* The run-time flags of a key record (records that are neither prefix nor suffix are never written)
Key(s, rec) == IF rec \in DOMAIN s.key THEN s.key[rec] ELSE NoKey


\* The prologue's sc: looked up when missing, cut to 8 bits, bit 9 set for an extended key
EventSc(e) ==
  LET sc0 == IF e.vkCode # 0 /\ e.scanCode = 0 THEN g_vk_to_sc(e.vkCode) ELSE e.scanCode
  IN (sc0 % SC_EXTENDED) + (IF e.extended THEN SC_EXTENDED ELSE 0)

\* The key record the dispatcher uses for an event
ThisKey(e) ==
  IF e.hook = "keybd" /\ sc_takes_precedence(EventSc(e)) THEN KSC(EventSc(e))
  ELSE IF e.hook = "keybd" THEN KVK(e.vkCode)
  ELSE KVK(e.vk)


\* ------------------------------------------------------------------------
\* Event classification
\* ------------------------------------------------------------------------
DualStateNumpadKeyIsDown(s) == s.pad_state # {}

IsDualStateNumpadKey(aVK, aSC) ==
  IF aSC >= SC_EXTENDED
    THEN FALSE
    ELSE aVK \in {VK_DELETE, VK_INSERT, VK_END, VK_DOWN, VK_NEXT, VK_LEFT, VK_CLEAR, VK_RIGHT, VK_HOME, VK_UP, VK_PRIOR}

\* One call of EventIsPhysical as the handler made it (kept for the latest handler only)
PhysCall(s, e, key_up, result) ==
  [vk |-> e.vkCode, up |-> key_up, injected |-> e.injected, result |-> result,
   flag |-> s.next_phys_shift_down_is_not_phys, pad |-> DualStateNumpadKeyIsDown(s),
   prior_up |-> s.prior_event_was_key_up, prior_dual |-> IsDualStateNumpadKey(s.prior_vk, s.prior_sc),
   elapsed |-> s.elapsed]

\* Keyboard hook.  Returns the state (the flag may be consumed) and the classification.
EventIsPhysicalWithin(s, e, key_up, timeout) ==
  LET shift_down == (e.vkCode = VK_LSHIFT \/ e.vkCode = VK_SHIFT) /\ ~key_up
      result ==
        IF e.injected THEN FALSE
        ELSE IF shift_down /\ s.next_phys_shift_down_is_not_phys /\ ~DualStateNumpadKeyIsDown(s) THEN FALSE
        ELSE IF shift_down /\ s.prior_event_was_key_up /\ IsDualStateNumpadKey(s.prior_vk, s.prior_sc)
                /\ s.elapsed < timeout THEN FALSE
        ELSE TRUE
      consumed == ~e.injected /\ shift_down /\ s.next_phys_shift_down_is_not_phys /\ ~DualStateNumpadKeyIsDown(s)
  IN [st |-> [s EXCEPT !.next_phys_shift_down_is_not_phys = IF consumed THEN FALSE ELSE @,
                       !.g_TimeLastInputPhysical = IF result THEN TRUE ELSE @,
                       !.calls = Append(@, PhysCall(s, e, key_up, result))],
      phys |-> result]

\* Mutant: the window is two ticks too long
EventIsPhysicalLate(s, e, key_up) == EventIsPhysicalWithin(s, e, key_up, SHIFT_KEY_WORKAROUND_TIMEOUT + 2)

EventIsPhysical(s, e, key_up) == EventIsPhysicalWithin(s, e, key_up, SHIFT_KEY_WORKAROUND_TIMEOUT)

\* ------------------------------------------------------------------------
\* Modifier tracking
\* ------------------------------------------------------------------------
\* The case of UpdateModifierState's switch an event falls in: the modifier bit, the
\* sided key, and for SHIFT/CTRL/ALT the neutral key and the key of the other side.
ModCase(bit, k, neutral, other) == [bit |-> bit, k |-> k, neutral |-> neutral, other |-> other]

ModTarget(vk, sc) ==
  CASE vk = VK_LSHIFT -> ModCase(MOD_LSHIFT, VK_LSHIFT, VK_SHIFT, VK_RSHIFT)
    [] vk = VK_RSHIFT -> ModCase(MOD_RSHIFT, VK_RSHIFT, VK_SHIFT, VK_LSHIFT)
    [] vk = VK_LCONTROL -> ModCase(MOD_LCONTROL, VK_LCONTROL, VK_CONTROL, VK_RCONTROL)
    [] vk = VK_RCONTROL -> ModCase(MOD_RCONTROL, VK_RCONTROL, VK_CONTROL, VK_LCONTROL)
    [] vk = VK_LMENU -> ModCase(MOD_LALT, VK_LMENU, VK_MENU, VK_RMENU)
    [] vk = VK_RMENU -> ModCase(MOD_RALT, VK_RMENU, VK_MENU, VK_LMENU)
    [] vk = VK_LWIN -> ModCase(MOD_LWIN, VK_LWIN, 0, 0)
    [] vk = VK_RWIN -> ModCase(MOD_RWIN, VK_RWIN, 0, 0)
    [] vk = VK_SHIFT /\ sc = SC_RSHIFT -> ModCase(MOD_RSHIFT, VK_RSHIFT, VK_SHIFT, VK_LSHIFT)
    [] vk = VK_SHIFT /\ sc # SC_RSHIFT -> ModCase(MOD_LSHIFT, VK_LSHIFT, VK_SHIFT, VK_RSHIFT)
    [] vk = VK_CONTROL /\ sc = SC_RCONTROL -> ModCase(MOD_RCONTROL, VK_RCONTROL, VK_CONTROL, VK_LCONTROL)
    [] vk = VK_CONTROL /\ sc # SC_RCONTROL -> ModCase(MOD_LCONTROL, VK_LCONTROL, VK_CONTROL, VK_RCONTROL)
    [] vk = VK_MENU /\ sc = SC_RALT -> ModCase(MOD_RALT, VK_RMENU, VK_MENU, VK_LMENU)
    [] vk = VK_MENU /\ sc # SC_RALT -> ModCase(MOD_LALT, VK_LMENU, VK_MENU, VK_RMENU)
    [] OTHER -> ModCase("", 0, 0, 0)

\* The body shared by all cases of UpdateModifierState's switch
ModifierSwitch(s, e, sc, key_up, update_logical) ==
  LET \* key-up: the sided entry goes false and the neutral one takes the other side's value;
      \* key-down: the sided and the neutral entry go true
      Table(old, t) ==
        IF key_up
          THEN IF t.neutral = 0 THEN old \ {t.k} ELSE SetBit(old \ {t.k}, t.neutral, t.other \in old)
          ELSE IF t.neutral = 0 THEN old \cup {t.k} ELSE old \cup {t.k, t.neutral}
      Physical(p, t) ==
        IF ~p.phys THEN p.st
        ELSE [p.st EXCEPT !.g_modifiersLR_physical = SetBit(@, t.bit, ~key_up),
                          !.g_PhysicalKeyState = Table(@, t)]
      Logical(t) ==
        IF update_logical THEN [s EXCEPT !.g_modifiersLR_logical = SetBit(@, t.bit, ~key_up)] ELSE s
      Case(t) == IF t.k = 0 THEN s ELSE Physical(EventIsPhysical(Logical(t), e, key_up), t)
  IN Case(ModTarget(e.vkCode, sc))

\* Mutant: the logical mask is updated whether or not the event is suppressed
UpdateModifierStateIgnoringSuppressed(s, e, sc, key_up, aIsSuppressed) ==
  ModifierSwitch(s, e, sc, key_up, TRUE)

UpdateModifierState(s, e, sc, key_up, aIsSuppressed) ==
  ModifierSwitch(s, e, sc, key_up, ~aIsSuppressed)

\* Variant of the fix-up whose case #4 wants the current key to be a dual-state numpad key
ShiftKeyWorkaroundNumpadOnly(s, e, sc, key_up, with_undo) ==
  LET in_window == s.prior_event_was_physical /\ (s.prior_vk = VK_LSHIFT \/ s.prior_vk = VK_SHIFT)
                   /\ s.elapsed < SHIFT_KEY_WORKAROUND_TIMEOUT
      current_is_dual_state == IsDualStateNumpadKey(e.vkCode, sc)
      fix_it == (~s.prior_event_was_key_up /\ DualStateNumpadKeyIsDown(s) /\ current_is_dual_state)
                \/ (s.prior_event_was_key_up /\ key_up /\ current_is_dual_state)
      undo == fix_it \/ (s.prior_event_was_key_up /\ current_is_dual_state)
      s1 == IF in_window /\ fix_it THEN [s EXCEPT !.next_phys_shift_down_is_not_phys = TRUE] ELSE s
  IN IF in_window /\ undo /\ with_undo
       THEN [s1 EXCEPT !.g_modifiersLR_physical = s.prior_modifiersLR_physical,
                       !.g_PhysicalKeyState = SetBit(SetBit(@, VK_SHIFT, s.prior_shift_state), VK_LSHIFT, s.prior_lshift_state),
                       !.restored = TRUE]
       ELSE s1

\* The first part of UpdateKeyState: the previous event was a shift event taken for physical
\* and only now is it known that the driver generated it
ShiftKeyWorkaround(s, e, sc, key_up, with_undo) ==
  LET in_window == s.prior_event_was_physical /\ (s.prior_vk = VK_LSHIFT \/ s.prior_vk = VK_SHIFT)
                   /\ s.elapsed < SHIFT_KEY_WORKAROUND_TIMEOUT
      current_is_dual_state == IsDualStateNumpadKey(e.vkCode, sc)
      fix_it == (~s.prior_event_was_key_up /\ DualStateNumpadKeyIsDown(s))
                \/ (s.prior_event_was_key_up /\ key_up /\ current_is_dual_state)
      undo == fix_it \/ (s.prior_event_was_key_up /\ current_is_dual_state)
      s1 == IF in_window /\ fix_it THEN [s EXCEPT !.next_phys_shift_down_is_not_phys = TRUE] ELSE s
  IN IF in_window /\ undo /\ with_undo
       THEN [s1 EXCEPT !.g_modifiersLR_physical = s.prior_modifiersLR_physical,
                       !.g_PhysicalKeyState = SetBit(SetBit(@, VK_SHIFT, s.prior_shift_state), VK_LSHIFT, s.prior_lshift_state),
                       !.restored = TRUE]
       ELSE s1

\* Mutant: the flag is armed but the effects of the shift event are not undone
FixUpWithoutUndo(s, e, sc, key_up) == ShiftKeyWorkaround(s, e, sc, key_up, FALSE)

FixUp(s, e, sc, key_up) == ShiftKeyWorkaround(s, e, sc, key_up, TRUE)

UpdateKeyState(s, e, sc, key_up, aIsSuppressed) ==
  LET Snapshot(t) == [t EXCEPT !.prior_modifiersLR_physical = t.g_modifiersLR_physical,
                               !.prior_shift_state = VK_SHIFT \in t.g_PhysicalKeyState,
                               !.prior_lshift_state = VK_LSHIFT \in t.g_PhysicalKeyState]
      Track(t) == IF VkAsModifiersLR(e.vkCode) # {} THEN UpdateModifierState(t, e, sc, key_up, aIsSuppressed) ELSE t
      Prior(p) == [p.st EXCEPT !.prior_vk = e.vkCode, !.prior_sc = sc, !.prior_event_was_key_up = key_up,
                               !.prior_event_was_physical = p.phys, !.elapsed = 0]
  IN Prior(EventIsPhysical(Track(Snapshot(FixUp(s, e, sc, key_up))), e, key_up))


\* ------------------------------------------------------------------------
\* Sending keys, suppressing and allowing
\* ------------------------------------------------------------------------
RECURSIVE LowLevelProc(_, _)

\* What one re-entrant (ignored) call did to the dispatcher's state
Reentry(vk, up, before, after) ==
  [vk |-> vk, up |-> up, verdict |-> after.verdict,
   keys_changed |-> after.key # before.key, prefix_changed |-> after.pPrefixKey # before.pPrefixKey,
   posted |-> after.posts # before.posts, depth |-> before.depth + 1,
   logical |-> before.g_modifiersLR_logical,
   logical_left |-> after.g_modifiersLR_logical,
   physical_changed |-> after.g_modifiersLR_physical # before.g_modifiersLR_physical
                          \/ after.g_PhysicalKeyState # before.g_PhysicalKeyState,
   menu_seen |-> ~before.alt_tab_menu_is_visible /\ after.alt_tab_menu_is_visible]

\* keybd_event() with dwExtraInfo = KEYIGNORE: the hook is re-entered before the call returns
SendKey(s, aVK, sc, up) ==
  LET e == [hook |-> "keybd", vkCode |-> aVK, scanCode |-> sc % SC_EXTENDED, extended |-> sc >= SC_EXTENDED,
            up |-> up, injected |-> TRUE, ignore |-> TRUE, dt |-> 0, numlock |-> s.numlock]
      \* the ring with the slot an invocation points at written back
      Ring(t) == IF t.MAX_HISTORY_KEYS = 0 THEN t.g_KeyHistory
                 ELSE [t.g_KeyHistory EXCEPT ![t.pKeyHistoryCurr] = t.event_type]
      \* the caller goes on with its own pointer: it finds in its slot what the call left there
      Returned(r) == [r EXCEPT !.g_KeyHistory = Ring(r), !.pKeyHistoryCurr = s.pKeyHistoryCurr,
                               !.event_type = IF s.MAX_HISTORY_KEYS = 0 THEN s.event_type ELSE Ring(r)[s.pKeyHistoryCurr],
                               !.verdict = s.verdict, !.ret = s.ret, !.depth = s.depth,
                               !.emits = Append(@, Reentry(aVK, up, s, r))]
  IN Returned(LowLevelProc([s EXCEPT !.depth = @ + 1, !.g_KeyHistory = Ring(s)], e))

KeyEvent(s, aEventType, aVK, aSC) ==
  LET sc == IF aSC = 0 THEN g_vk_to_sc(aVK) ELSE aSC
  IN CASE aEventType = "KEYDOWN" -> SendKey(s, aVK, sc, FALSE)
       [] aEventType = "KEYUP" -> SendKey(s, aVK, sc, TRUE)
       [] aEventType = "KEYDOWNANDUP" -> SendKey(SendKey(s, aVK, sc, FALSE), aVK, sc, TRUE)

\* One call UpdateKeyState(..., aIsSuppressed = true) made for a modifier key
SuppressedCall(e, key_up, before, after) ==
  [vk |-> e.vkCode, up |-> key_up, before |-> before.g_modifiersLR_logical, after |-> after.g_modifiersLR_logical]

\* Mutant: the Numlock fix sends one key-up and one key-down only
NumlockFixOnce(s, e, key_up) ==
  IF e.vkCode = VK_NUMLOCK /\ ~key_up /\ ~e.ignore
    THEN KeyEvent(KeyEvent(s, "KEYUP", VK_NUMLOCK, 0), "KEYDOWN", VK_NUMLOCK, 0)
    ELSE s

\* SuppressThisKeyFunc: the suppressed Numlock key-down is undone for the indicator light
NumlockFix(s, e, key_up) ==
  IF e.vkCode = VK_NUMLOCK /\ ~key_up /\ ~e.ignore
    THEN KeyEvent(KeyEvent(KeyEvent(KeyEvent(s, "KEYUP", VK_NUMLOCK, 0), "KEYDOWN", VK_NUMLOCK, 0),
                           "KEYUP", VK_NUMLOCK, 0), "KEYDOWN", VK_NUMLOCK, 0)
    ELSE s

\* Keyboard hook: a suppressed event that updates the logical state like a forwarded one
SuppressThisKeyFuncAsForwarded(s, e, sc, key_up) ==
  LET Marked(t) == IF t.event_type = " " THEN [t EXCEPT !.event_type = "s"] ELSE t
      NumLockBack(t) == NumlockFix(t, e, key_up)
      Suppressed(t, u) ==
        [u EXCEPT !.verdict = "suppress",
                  !.sup_calls = IF VkAsModifiersLR(e.vkCode) # {} THEN Append(@, SuppressedCall(e, key_up, t, u)) ELSE @]
      Tracked(t) == Suppressed(t, UpdateKeyState(t, e, sc, key_up, FALSE))
  IN Tracked(NumLockBack(Marked(s)))

\* Keyboard hook
SuppressThisKeyFunc(s, e, sc, key_up) ==
  LET Marked(t) == IF t.event_type = " " THEN [t EXCEPT !.event_type = "s"] ELSE t
      NumLockBack(t) == NumlockFix(t, e, key_up)
      Suppressed(t, u) ==
        [u EXCEPT !.verdict = "suppress",
                  !.sup_calls = IF VkAsModifiersLR(e.vkCode) # {} THEN Append(@, SuppressedCall(e, key_up, t, u)) ELSE @]
      Tracked(t) == Suppressed(t, UpdateKeyState(t, e, sc, key_up, TRUE))
  IN Tracked(NumLockBack(Marked(s)))

\* Mouse hook
SuppressThisKeyFuncMouse(s) ==
  [s EXCEPT !.event_type = IF @ = " " THEN "s" ELSE @, !.verdict = "suppress"]

IsAltVk(vk) == vk = VK_MENU \/ vk = VK_LMENU \/ vk = VK_RMENU
IsShiftVk(vk) == vk = VK_LSHIFT \/ vk = VK_RSHIFT \/ vk = VK_SHIFT
IsControlVk(vk) == vk = VK_LCONTROL \/ vk = VK_RCONTROL \/ vk = VK_CONTROL

\* Mutant: a key forced on or off is suppressed even when the event is one of the engine's own
ForcedToggleEvenIfIgnored(e) == ForceToggle(e.vkCode) # "NULL" /\ ForceToggle(e.vkCode) # "NEUTRAL"

\* AllowIt's first test applied to key-downs only
ForcedToggleOnKeyDown(e) == ~e.ignore /\ ~e.up /\ ForceToggle(e.vkCode) # "NULL" /\ ForceToggle(e.vkCode) # "NEUTRAL"

\* AllowIt's first test: the user wants this toggleable key always on or always off
ForcedToggle(e) == ~e.ignore /\ ForceToggle(e.vkCode) # "NULL" /\ ForceToggle(e.vkCode) # "NEUTRAL"

\* AllowIt: Win-L locks the workstation and the hook never sees the keys go up
WinLReset(s, e, key_up) ==
  IF e.vkCode = VK_L /\ ~key_up
     /\ (s.g_modifiersLR_logical = {MOD_LWIN} \/ s.g_modifiersLR_logical = {MOD_RWIN}
         \/ s.g_modifiersLR_logical = {MOD_RWIN} \cup {MOD_RWIN})
     /\ C.os = "XP"
    THEN [s EXCEPT !.g_modifiersLR_logical = {}, !.g_modifiersLR_physical = {},
                   !.g_PhysicalKeyState = @ \ {e.vkCode, VK_LWIN, VK_RWIN}]
    ELSE s

\* AllowIt: Ctrl-Alt-Del on Windows 2000 / NT4
CtrlAltDelReset(s, e, key_up) ==
  IF (e.vkCode = VK_DELETE \/ e.vkCode = VK_DECIMAL) /\ ~key_up
     /\ s.g_modifiersLR_physical \cap {MOD_LCONTROL, MOD_RCONTROL} # {}
     /\ s.g_modifiersLR_physical \cap {MOD_LALT, MOD_RALT} # {}
     /\ s.g_modifiersLR_physical \cap {MOD_LSHIFT, MOD_RSHIFT} = {}
     /\ C.os \in {"2000", "NT4"}
    THEN [s EXCEPT !.g_modifiersLR_logical = {}, !.g_modifiersLR_physical = {},
                   !.g_PhysicalKeyState = @ \ {e.vkCode, VK_LCONTROL, VK_RCONTROL, VK_LMENU, VK_RMENU}]
    ELSE s

\* Keyboard hook
AllowIt(s, e, sc, key_up, DisguiseWinAlt) ==
  LET Pass(t) == [t EXCEPT !.verdict = "pass"]
      AltTabMenuGone(t) ==
        IF t.alt_tab_menu_is_visible /\ IsAltVk(e.vkCode) /\ key_up /\ t.event_type # "h" /\ t.event_type # "s"
          THEN [t EXCEPT !.alt_tab_menu_is_visible = FALSE]
          ELSE t
      Disguised(t) ==
        [KeyEvent(KeyEvent(KeyEvent(t, "KEYDOWN", VK_SHIFT, 0), IF key_up THEN "KEYUP" ELSE "KEYDOWN", e.vkCode, sc),
                  "KEYUP", VK_SHIFT, 0)
           EXCEPT !.event_type = IF @ # "h" THEN "s" ELSE @, !.verdict = "suppress"]
      Modifier(t) ==
        IF DisguiseWinAlt /\ key_up /\ (e.vkCode = VK_LWIN \/ e.vkCode = VK_RWIN \/ IsAltVk(e.vkCode))
          THEN Disguised(t)
          ELSE Pass(t)
      Tracked(t) == IF VkAsModifiersLR(e.vkCode) = {} THEN Pass(t) ELSE Modifier(AltTabMenuGone(t))
  IN IF ForcedToggle(e)
       THEN SuppressThisKeyFunc(s, e, sc, key_up)
       ELSE Tracked(CtrlAltDelReset(WinLReset(UpdateKeyState(s, e, sc, key_up, FALSE), e, key_up), e, key_up))

\* Mouse hook
AllowItMouse(s) == [s EXCEPT !.verdict = "pass"]

\* The macros SuppressThisKey, AllowKeyToGoToSystem and AllowKeyToGoToSystemButDisguiseWinAlt stand
\* for a call of SuppressThisKeyFunc or AllowIt and occur only as "return <macro>": the state
\* records which one the return statement names, and ReturnFromHook makes the call.
\* cx holds the handler's locals: hook, the event, vk, sc, key_up
SuppressThisKey(s, cx) == [s EXCEPT !.ret = "SuppressThisKey"]
AllowKeyToGoToSystem(s, cx) == [s EXCEPT !.ret = "AllowKeyToGoToSystem"]
AllowKeyToGoToSystemButDisguiseWinAlt(s, cx) == [s EXCEPT !.ret = "AllowKeyToGoToSystemButDisguiseWinAlt"]

ReturnFromHook(s, cx) ==
  IF cx.hook = "keybd"
    THEN IF s.ret = "SuppressThisKey" THEN SuppressThisKeyFunc(s, cx.e, cx.sc, cx.key_up)
         ELSE AllowIt(s, cx.e, cx.sc, cx.key_up, s.ret = "AllowKeyToGoToSystemButDisguiseWinAlt")
    ELSE IF s.ret = "SuppressThisKey" THEN SuppressThisKeyFuncMouse(s)
         ELSE AllowItMouse(s)


\* ------------------------------------------------------------------------
\* The dispatcher (shared text of LowLevelKeybdProc and LowLevelMouseProc)
\* ------------------------------------------------------------------------
ForceToggleOf(rec) == IF rec[1] = "kvk" THEN ForceToggle(rec[2]) ELSE "NULL"

\* GET_HOTKEY_ID_AND_FLAGS
HotkeyId(id_with_flags) == id_with_flags % (HOTKEY_ID_MASK + 1)
NoSuppress(id_with_flags) == (id_with_flags \div HOTKEY_NO_SUPPRESS) % 2 = 1

ALLOW_MOUSE_SUPPRESS(s, pThisKey) ==
  ~no_mouse_suppress(pThisKey) \/ s.g_modifiersLR_logical # {} \/ s.pPrefixKey # NULL

HasAlt(m) == m \cap {MOD_LALT, MOD_RALT} # {}
HasShift(m) == m \cap {MOD_LSHIFT, MOD_RSHIFT} # {}
HasControl(m) == m \cap {MOD_LCONTROL, MOD_RCONTROL} # {}

\* "return (as_modifiersLR || (pForceToggle != NULL && *pForceToggle == NEUTRAL))
\*     ? AllowKeyToGoToSystem : SuppressThisKey" (mouse hook: return SuppressThisKey)
AllowModifierOrNeutralToggle(s, cx, pThisKey) ==
  IF cx.hook = "keybd" /\ (as_modifiersLR(pThisKey) # {} \/ ForceToggleOf(pThisKey) = "NEUTRAL")
    THEN AllowKeyToGoToSystem(s, cx)
    ELSE SuppressThisKey(s, cx)

\* Mutant: a modifier prefix that was only AS_PREFIX is disguised as well
UsedModifierAlwaysDisguised(s, cx, pThisKey) ==
  IF cx.hook = "keybd" /\ as_modifiersLR(pThisKey) # {}
    THEN AllowKeyToGoToSystemButDisguiseWinAlt(s, cx)
    ELSE SuppressThisKey(s, cx)

\* Case 3, not a NEUTRAL toggle key, was_just_used is AS_PREFIX or AS_PREFIX_FOR_HOTKEY
UsedPrefixReleased(s, cx, pThisKey) ==
  IF cx.hook = "keybd" /\ as_modifiersLR(pThisKey) # {}
    THEN IF Key(s, pThisKey).was_just_used = AS_PREFIX_FOR_HOTKEY
           THEN AllowKeyToGoToSystemButDisguiseWinAlt(s, cx)
           ELSE AllowKeyToGoToSystem(s, cx)
    ELSE SuppressThisKey(s, cx)

\* Mutant: the key-up is suppressed without toggling the key back
ToggleBackForgotten(s, cx) == SuppressThisKey(s, cx)

\* Mutant: the restore starts with the key-down
ToggleBackDownFirst(s, cx) ==
  SuppressThisKey(KeyEvent(KeyEvent(KeyEvent(s, "KEYDOWN", cx.vk, cx.sc), "KEYUP", cx.vk, cx.sc), "KEYDOWN", cx.vk, cx.sc), cx)

\* The toggle restore: key up, down, up in place of the real key-up
ToggleBack(s, cx) ==
  SuppressThisKey(KeyEvent(KeyEvent(KeyEvent(s, "KEYUP", cx.vk, cx.sc), "KEYDOWN", cx.vk, cx.sc), "KEYUP", cx.vk, cx.sc), cx)

\* Mutant: the message is lost
PostMessageLost(s, hotkey_id, lParam) == s

PostMessage(s, hotkey_id, lParam) == [s EXCEPT !.posts = Append(@, [id |-> hotkey_id, extra |-> lParam])]

\* First entry of a ModifierVK / ModifierSC list whose key is down (0 if none)
FirstDown(s, list, kind) ==
  LET hits == {i \in 1..Len(list) : Key(s, <<kind, list[i].k>>).is_down}
  IN IF hits = {} THEN 0 ELSE CHOOSE i \in hits : \A j \in hits : i <= j

\* Case 4, alt-tab by a prefix key: ALT_TAB or ALT_TAB_SHIFT found in a ModifierVK/SC list
PrefixAltTab(s, cx, pThisKey, hotkey_id) ==
  LET kbd == cx.hook = "keybd"
      vk == cx.vk
      Acted(t) == IF ~cx.key_up THEN [t EXCEPT !.key[pThisKey].down_performed_action = TRUE] ELSE t
      AltDown(t) == IF ~HasAlt(t.g_modifiersLR_logical) THEN KeyEvent(t, "KEYDOWN", VK_MENU, 0) ELSE t
      OwnControlUp(t) == IF kbd /\ IsControlVk(vk) THEN KeyEvent(t, "KEYUP", vk, cx.sc) ELSE t
      PutAlt(t) == [t EXCEPT !.key[t.pPrefixKey].it_put_alt_down = TRUE]
      ShiftDown(t) == IF ~HasShift(t.g_modifiersLR_logical) THEN KeyEvent(t, "KEYDOWN", VK_SHIFT, 0) ELSE t
      PutShift(t) == [t EXCEPT !.key[t.pPrefixKey].it_put_shift_down = TRUE]
      OwnShiftUp(t) == IF kbd /\ IsShiftVk(vk) THEN KeyEvent(t, "KEYUP", vk, cx.sc) ELSE t
      HeldShiftUp(t) ==
        IF HasShift(t.g_modifiersLR_logical)
          THEN KeyEvent(t, "KEYUP", IF MOD_RSHIFT \in t.g_modifiersLR_logical THEN VK_RSHIFT ELSE VK_LSHIFT, 0)
          ELSE t
      Shift(t) == IF hotkey_id = HOTKEY_ID_ALT_TAB_SHIFT THEN PutShift(ShiftDown(t)) ELSE HeldShiftUp(OwnShiftUp(t))
      HeldControlUp(t) ==
        IF HasControl(t.g_modifiersLR_logical)
          THEN KeyEvent(t, "KEYUP", IF MOD_RCONTROL \in t.g_modifiersLR_logical THEN VK_RCONTROL ELSE VK_LCONTROL, 0)
          ELSE t
      Tab(t) == KeyEvent(t, "KEYDOWNANDUP", VK_TAB, 0)
      NumpadShiftUp(t) ==
        IF hotkey_id = HOTKEY_ID_ALT_TAB_SHIFT /\ Key(t, t.pPrefixKey).it_put_shift_down
           /\ ((vk >= VK_NUMPAD0 /\ vk <= VK_NUMPAD9) \/ vk = VK_DECIMAL)
          THEN [KeyEvent(t, "KEYUP", VK_SHIFT, 0) EXCEPT !.key[t.pPrefixKey].it_put_shift_down = FALSE]
          ELSE t
      Fired(t) == [t EXCEPT !.event_type = "h"]
      s1 == Acted(s)
      s2 == AltDown(s1)
      s3 == OwnControlUp(s2)
      s4 == PutAlt(s3)
      s5 == Shift(s4)
      s6 == HeldControlUp(s5)
      s7 == Tab(s6)
      s8 == NumpadShiftUp(s7)
  IN SuppressThisKey(Fired(s8), cx)

\* switch(hotkey_id), cases ALT_TAB_MENU(_DISMISS) and ALT_TAB_AND_MENU while the menu is not visible
ShowAltTabMenu(s, cx) ==
  LET vk == cx.vk
      key_up == cx.key_up
      L == s.g_modifiersLR_logical
      which_alt_down0 == IF MOD_LALT \in L THEN VK_LMENU ELSE IF MOD_RALT \in L THEN VK_RMENU ELSE 0
      which_shift_down == IF MOD_LSHIFT \in L THEN VK_LSHIFT ELSE IF MOD_RSHIFT \in L THEN VK_RSHIFT
                          ELSE IF ~key_up /\ IsShiftVk(vk) THEN vk ELSE 0
      which_control_down == IF MOD_LCONTROL \in L THEN VK_LCONTROL ELSE IF MOD_RCONTROL \in L THEN VK_RCONTROL
                          ELSE IF ~key_up /\ IsControlVk(vk) THEN vk ELSE 0
      which_alt_down == IF IsAltVk(vk) THEN (IF key_up THEN 0 ELSE vk) ELSE which_alt_down0
      ShiftUp(t) == IF which_shift_down # 0 THEN KeyEvent(t, "KEYUP", which_shift_down, 0) ELSE t
      ControlUp(t) == IF which_control_down # 0 THEN KeyEvent(t, "KEYUP", which_control_down, 0) ELSE t
      AltDown(t) == IF which_alt_down = 0 THEN KeyEvent(t, "KEYDOWN", VK_MENU, 0) ELSE t
      TabDown(t) == KeyEvent(t, "KEYDOWN", VK_TAB, 0)
      ShiftBack(t) == IF which_shift_down # 0 /\ ~IsShiftVk(vk) THEN KeyEvent(t, "KEYDOWN", which_shift_down, 0) ELSE t
      s1 == ShiftUp(s)
      s2 == ControlUp(s1)
      s3 == AltDown(s2)
      s4 == TabDown(s3)
      s5 == ShiftBack(s4)
  IN [s5 EXCEPT !.alt_tab_menu_is_visible = TRUE]

\* switch(hotkey_id), cases ALT_TAB_MENU and ALT_TAB_MENU_DISMISS while the menu is visible
DismissAltTabMenu(s, cx, pThisKey) ==
  LET L == s.g_modifiersLR_logical
      which_alt_down == IF MOD_LALT \in L THEN VK_LMENU ELSE IF MOD_RALT \in L THEN VK_RMENU ELSE 0
      OwnUp(t) == IF as_modifiersLR(pThisKey) # {} /\ cx.vk # VK_LWIN /\ cx.vk # VK_RWIN
                    THEN KeyEvent(t, "KEYUP", cx.vk, 0)
                    ELSE t
      s1 == KeyEvent(s, "KEYUP", IF which_alt_down # 0 THEN which_alt_down ELSE VK_MENU, 0)
      s2 == OwnUp(s1)
  IN [s2 EXCEPT !.alt_tab_menu_is_visible = FALSE]

\* switch(hotkey_id), cases ALT_TAB and ALT_TAB_SHIFT (and ALT_TAB_AND_MENU falling through) while the menu is visible
NavigateAltTabMenu(s, cx, hotkey_id) ==
  LET vk == cx.vk
      OwnUp(t) == IF ~cx.key_up /\ (IsControlVk(vk) \/ IsShiftVk(vk)) THEN KeyEvent(t, "KEYUP", vk, 0) ELSE t
      AltDown(t) == IF ~HasAlt(t.g_modifiersLR_logical) \/ (cx.key_up /\ IsAltVk(vk))
                      THEN KeyEvent(t, "KEYDOWN", VK_MENU, 0)
                      ELSE t
      Tab(t) == KeyEvent(t, "KEYDOWNANDUP", VK_TAB, 0)
      \* shift is put down for the TAB only when it is not down already
      ShiftedTab(t) ==
        IF hotkey_id = HOTKEY_ID_ALT_TAB_SHIFT /\ ~HasShift(t.g_modifiersLR_logical)
          THEN KeyEvent(Tab(KeyEvent(t, "KEYDOWN", VK_SHIFT, 0)), "KEYUP", VK_SHIFT, 0)
          ELSE Tab(t)
      s1 == OwnUp(s)
      s2 == AltDown(s1)
  IN ShiftedTab(s2)

\* switch(hotkey_id): the state after it, and whether it returned AllowKeyToGoToSystem by itself
HotkeySwitch(s, cx, pThisKey, hotkey_id) ==
  LET menu_ids == {HOTKEY_ID_ALT_TAB_MENU_DISMISS, HOTKEY_ID_ALT_TAB_MENU, HOTKEY_ID_ALT_TAB_AND_MENU}
      tab_ids == {HOTKEY_ID_ALT_TAB, HOTKEY_ID_ALT_TAB_SHIFT}
      Break(st) == [st |-> st, returned |-> FALSE]
      Return(st) == [st |-> AllowKeyToGoToSystem(st, cx), returned |-> TRUE]
  IN IF hotkey_id = HOTKEY_ID_ALT_TAB_MENU_DISMISS /\ ~s.alt_tab_menu_is_visible THEN Return(s)
     ELSE IF hotkey_id \in menu_ids /\ s.alt_tab_menu_is_visible /\ hotkey_id # HOTKEY_ID_ALT_TAB_AND_MENU
       THEN Break(DismissAltTabMenu(s, cx, pThisKey))
     ELSE IF hotkey_id \in menu_ids /\ ~s.alt_tab_menu_is_visible THEN Break(ShowAltTabMenu(s, cx))
     ELSE IF hotkey_id \in menu_ids \cup tab_ids
       THEN IF ~s.alt_tab_menu_is_visible THEN Return(s) ELSE Break(NavigateAltTabMenu(s, cx, hotkey_id))
     ELSE Break(PostMessage(s, hotkey_id,
                            IF cx.hook = "keybd" THEN 0 ELSE IF ALLOW_MOUSE_SUPPRESS(s, pThisKey) THEN 0 ELSE 1))

\* Mutant: no disguise is prepared
ArmDisguiseNever(s) == s

\* Start-menu / menu-bar disguise preparation, done once a hotkey id has been found
\* Variant that looks only at the key's own bit, whatever else is down
ArmDisguiseAnyModifiers(s) ==
  LET L == s.g_modifiersLR_logical
  IN [s EXCEPT !.disguise_next_lwin_up = IF MOD_LWIN \in L /\ ~used_as_prefix(KVK(VK_LWIN)) THEN TRUE ELSE @,
               !.disguise_next_rwin_up = IF MOD_RWIN \in L /\ ~used_as_prefix(KVK(VK_RWIN)) THEN TRUE ELSE @,
               !.disguise_next_lalt_up = IF MOD_LALT \in L /\ ~used_as_prefix(KVK(VK_LMENU)) THEN TRUE ELSE @,
               !.disguise_next_ralt_up = IF MOD_RALT \in L /\ ~used_as_prefix(KVK(VK_RMENU)) THEN TRUE ELSE @]

ArmDisguise(s) ==
  LET L == s.g_modifiersLR_logical
  IN IF L \ {MOD_LWIN, MOD_RWIN} = {}
       THEN [s EXCEPT !.disguise_next_lwin_up = IF MOD_LWIN \in L /\ ~used_as_prefix(KVK(VK_LWIN)) THEN TRUE ELSE @,
                      !.disguise_next_rwin_up = IF MOD_RWIN \in L /\ ~used_as_prefix(KVK(VK_RWIN)) THEN TRUE ELSE @]
     ELSE IF L \ {MOD_LALT, MOD_RALT} = {}
       THEN [s EXCEPT !.disguise_next_lalt_up = IF MOD_LALT \in L /\ ~used_as_prefix(KVK(VK_LMENU)) THEN TRUE ELSE @,
                      !.disguise_next_ralt_up = IF MOD_RALT \in L /\ ~used_as_prefix(KVK(VK_RMENU)) THEN TRUE ELSE @]
     ELSE s

\* Mutant: the no-suppress flag is not honoured
AfterHotkeySuppressing(s0, cx, pThisKey, no_suppress) ==
  LET key_up == cx.key_up
      s == [s0 EXCEPT !.event_type = "h"]
      Acted(t) == [t EXCEPT !.key[pThisKey].down_performed_action = TRUE]
  IN IF key_up THEN SuppressThisKey(s, cx) ELSE SuppressThisKey(Acted(s), cx)

\* What follows the switch: the hotkey has fired
AfterHotkey(s0, cx, pThisKey, no_suppress) ==
  LET kbd == cx.hook = "keybd"
      key_up == cx.key_up
      s == [s0 EXCEPT !.event_type = "h"]
      Acted(t) == [t EXCEPT !.key[pThisKey].down_performed_action = TRUE]
      PrefixUsed(t) == IF t.pPrefixKey # NULL THEN [t EXCEPT !.key[t.pPrefixKey].was_just_used = AS_PREFIX_FOR_HOTKEY] ELSE t
      OwnDownAndUp(t) == IF kbd /\ no_suppress THEN KeyEvent(t, "KEYDOWNANDUP", cx.vk, cx.sc) ELSE t
      Last(t) == IF kbd \/ ALLOW_MOUSE_SUPPRESS(t, pThisKey) THEN SuppressThisKey(t, cx) ELSE AllowKeyToGoToSystem(t, cx)
  IN IF kbd /\ ForceToggleOf(pThisKey) = "NEUTRAL" /\ used_as_prefix(pThisKey) /\ key_up
       THEN ToggleBack(s, cx)
     ELSE IF kbd /\ as_modifiersLR(pThisKey) # {} /\ key_up
       THEN AllowKeyToGoToSystemButDisguiseWinAlt(s, cx)
     ELSE IF kbd /\ key_up /\ no_suppress
       THEN AllowKeyToGoToSystem(KeyEvent(s, "KEYDOWN", cx.vk, cx.sc), cx)
     ELSE IF key_up THEN Last(s)
     ELSE Last(OwnDownAndUp(PrefixUsed(Acted(s))))

\* Case 4, once a hotkey id has been found
FireHotkey(s, cx, pThisKey, flags) ==
  LET Switched(sw) == IF sw.returned THEN sw.st ELSE AfterHotkey(sw.st, cx, pThisKey, NoSuppress(flags))
  IN Switched(HotkeySwitch(ArmDisguise(s), cx, pThisKey, HotkeyId(flags)))

\* Mutant: the key's own modifier bit stays in the mask
MaskLookupWithOwnBit(s, cx, pThisKey) ==
  LET kbd == cx.hook = "keybd"
      modifiersLRnew == s.g_modifiersLR_logical
      Lookup(m) == IF kbd THEN (IF sc_takes_precedence(cx.sc) THEN Kscm(m, cx.sc) ELSE Kvkm(m, cx.vk)) ELSE Kvkm(m, cx.vk)
  IN IF HotkeyId(Lookup(modifiersLRnew)) = HOTKEY_ID_INVALID /\ s.alt_tab_menu_is_visible
       THEN Lookup(modifiersLRnew \ {MOD_LALT, MOD_RALT})
       ELSE Lookup(modifiersLRnew)

\* Case 4, the modifier-mask lookup, tried again without ALT while the alt-tab menu is up
MaskLookup(s, cx, pThisKey) ==
  LET kbd == cx.hook = "keybd"
      modifiersLRnew == s.g_modifiersLR_logical \ (IF kbd THEN as_modifiersLR(pThisKey) ELSE {})
      Lookup(m) == IF kbd THEN (IF sc_takes_precedence(cx.sc) THEN Kscm(m, cx.sc) ELSE Kvkm(m, cx.vk)) ELSE Kvkm(m, cx.vk)
  IN IF HotkeyId(Lookup(modifiersLRnew)) = HOTKEY_ID_INVALID /\ s.alt_tab_menu_is_visible
       THEN Lookup(modifiersLRnew \ {MOD_LALT, MOD_RALT})
       ELSE Lookup(modifiersLRnew)

\* Case 4, the search of the suffix's ModifierVK list and then of its ModifierSC list for
\* a key that is down: the state (the prefix slot may be rebound) and the id found
PrefixSearch(s, cx, pThisKey) ==
  LET search == s.pPrefixKey # NULL /\ ~cx.key_up
      vlist == ModifierVK(pThisKey)
      slist == ModifierSC(pThisKey)
      BoundSC(t, flagsv, is) ==
        IF is # 0
          THEN [st |-> [t EXCEPT !.pPrefixKey = KSC(slist[is].k), !.key[KSC(slist[is].k)].was_just_used = AS_PREFIX_FOR_HOTKEY],
                flags |-> slist[is].id_with_flags]
          ELSE [st |-> t, flags |-> flagsv]
      BySC(t, flagsv) ==
        BoundSC(t, flagsv, IF search /\ HotkeyId(flagsv) = HOTKEY_ID_INVALID THEN FirstDown(t, slist, "ksc") ELSE 0)
      ByVK(iv) ==
        IF iv # 0
          THEN BySC([s EXCEPT !.pPrefixKey = KVK(vlist[iv].k), !.key[KVK(vlist[iv].k)].was_just_used = AS_PREFIX_FOR_HOTKEY],
                    vlist[iv].id_with_flags)
          ELSE BySC(s, HOTKEY_ID_INVALID)
  IN ByVK(IF search THEN FirstDown(s, vlist, "kvk") ELSE 0)

\* Case 4 with the id the lists or the mask gave
Case4WithId(s, cx, pThisKey, flags) ==
  IF HotkeyId(flags) = HOTKEY_ID_INVALID
    THEN IF cx.key_up THEN AllowModifierOrNeutralToggle(s, cx, pThisKey) ELSE AllowKeyToGoToSystem(s, cx)
    ELSE FireHotkey(s, cx, pThisKey, flags)

\* Case 4 after the search of the lists
Case4Searched(f, cx, pThisKey) ==
  IF HotkeyId(f.flags) \in {HOTKEY_ID_ALT_TAB, HOTKEY_ID_ALT_TAB_SHIFT}
    THEN PrefixAltTab(f.st, cx, pThisKey, HotkeyId(f.flags))
    ELSE Case4WithId(f.st, cx, pThisKey,
                     IF HotkeyId(f.flags) # HOTKEY_ID_INVALID THEN f.flags ELSE MaskLookup(f.st, cx, pThisKey))

\* Case 4: suffix key-down, or the key-up of a prefix+suffix key falling through from Case 3
Case4(s, cx, pThisKey) == Case4Searched(PrefixSearch(s, cx, pThisKey), cx, pThisKey)

\* Mutant: the release of any prefix key empties the prefix slot
ReleasePrefixAlways(s, pThisKey) == [s EXCEPT !.pPrefixKey = NULL]

\* "if (pPrefixKey == pThisKey) pPrefixKey = NULL": else the old prefix stays in effect
ReleasePrefix(s, pThisKey) == IF s.pPrefixKey = pThisKey THEN [s EXCEPT !.pPrefixKey = NULL] ELSE s

\* Case 3 after the prefix slot and the keys put down for alt-tab have been released
Case3Released(s, cx, pThisKey, was_down_before_up) ==
  LET kbd == cx.hook = "keybd"
      neutral_toggle == kbd /\ ForceToggleOf(pThisKey) = "NEUTRAL"
      was_just_used == Key(s, pThisKey).was_just_used
  IN IF neutral_toggle /\ was_just_used = AS_PREFIX_FOR_HOTKEY THEN ToggleBack(s, cx)
     ELSE IF neutral_toggle /\ was_just_used = AS_PREFIX THEN AllowKeyToGoToSystem(s, cx)
     ELSE IF ~neutral_toggle /\ was_just_used # UNUSED
       THEN UsedPrefixReleased(s, cx, pThisKey)
     ELSE IF ~used_as_suffix(pThisKey) THEN AllowModifierOrNeutralToggle(s, cx, pThisKey)
     ELSE IF ~was_down_before_up THEN AllowKeyToGoToSystem(s, cx)
     ELSE Case4(s, cx, pThisKey)

\* Case 3: a prefix key has been released
Case3(s, cx, pThisKey, was_down_before_up) ==
  LET AltUp(t) ==
        IF Key(t, pThisKey).it_put_alt_down
          THEN KeyEvent([t EXCEPT !.key[pThisKey].it_put_alt_down = FALSE], "KEYUP", VK_MENU, 0)
          ELSE t
      ShiftUp(t) ==
        IF Key(t, pThisKey).it_put_shift_down
          THEN KeyEvent([t EXCEPT !.key[pThisKey].it_put_shift_down = FALSE], "KEYUP", VK_SHIFT, 0)
          ELSE t
  IN Case3Released(ShiftUp(AltUp(ReleasePrefix(s, pThisKey))), cx, pThisKey, was_down_before_up)

\* Mutant: was_just_used keeps the value of the previous press
Case1KeepingUsed(s, cx, pThisKey) ==
  AllowModifierOrNeutralToggle([s EXCEPT !.pPrefixKey = pThisKey], cx, pThisKey)

\* Case 1: a prefix key has been pressed down
Case1(s, cx, pThisKey) ==
  AllowModifierOrNeutralToggle([s EXCEPT !.pPrefixKey = pThisKey, !.key[pThisKey].was_just_used = UNUSED], cx, pThisKey)

\* Mutant: the key-up of a suffix is never suppressed
Case2AlwaysAllow(s, cx, pThisKey, down_performed_action) == AllowKeyToGoToSystem(s, cx)

\* Mutant: the mouse hook suppresses like the keyboard hook
Case2WithoutMouseFlag(s, cx, pThisKey, down_performed_action) ==
  IF down_performed_action
    THEN SuppressThisKey(s, cx)
    ELSE AllowKeyToGoToSystem(s, cx)

\* Case 2: a suffix key that is not the active prefix has been released
Case2(s, cx, pThisKey, down_performed_action) ==
  IF down_performed_action /\ (cx.hook = "keybd" \/ ALLOW_MOUSE_SUPPRESS(s, pThisKey))
    THEN SuppressThisKey(s, cx)
    ELSE AllowKeyToGoToSystem(s, cx)

\* The four cases of a key that is a prefix or a suffix
FourCases(s, cx, pThisKey, was_down_before_up, down_performed_action) ==
  IF used_as_prefix(pThisKey) /\ ~cx.key_up /\ (s.pPrefixKey = NULL \/ ~used_as_suffix(pThisKey))
    THEN Case1(s, cx, pThisKey)
  ELSE IF used_as_suffix(pThisKey) /\ s.pPrefixKey # pThisKey /\ cx.key_up
    THEN Case2(s, cx, pThisKey, down_performed_action)
  ELSE IF used_as_prefix(pThisKey) /\ cx.key_up
    THEN Case3(s, cx, pThisKey, was_down_before_up)
  ELSE Case4(s, cx, pThisKey)

\* Mutant: is_down is left as it was
SaveWithoutIsDown(s, cx, pThisKey) ==
  FourCases([s EXCEPT !.key[pThisKey].down_performed_action = IF cx.key_up THEN FALSE ELSE @],
            cx, pThisKey, Key(s, pThisKey).is_down, Key(s, pThisKey).down_performed_action)

\* is_down and down_performed_action are saved, then reset for the new event
SaveAndReset(s, cx, pThisKey) ==
  FourCases([s EXCEPT !.key[pThisKey] = [@ EXCEPT !.down_performed_action = IF cx.key_up THEN FALSE ELSE @,
                                                  !.is_down = ~cx.key_up]],
            cx, pThisKey, Key(s, pThisKey).is_down, Key(s, pThisKey).down_performed_action)

\* Only a suffix key pressed while a prefix is held marks the prefix as used
PrefixUsedBySuffixOnly(s, cx, pThisKey) ==
  IF s.pPrefixKey # NULL /\ ~cx.key_up /\ used_as_suffix(pThisKey)
     /\ (IF cx.hook = "keybd" THEN as_modifiersLR(pThisKey) = {} ELSE as_modifiersLR(s.pPrefixKey) # {})
    THEN [s EXCEPT !.key[s.pPrefixKey].was_just_used = AS_PREFIX]
    ELSE s

\* A key pressed while a prefix is held marks the prefix as used
PrefixUsed(s, cx, pThisKey) ==
  IF s.pPrefixKey # NULL /\ ~cx.key_up
     /\ (IF cx.hook = "keybd" THEN as_modifiersLR(pThisKey) = {} ELSE as_modifiersLR(s.pPrefixKey) # {})
    THEN [s EXCEPT !.key[s.pPrefixKey].was_just_used = AS_PREFIX]
    ELSE s

\* After the auto-repeat of the active prefix has been dealt with
NotRepeat(s, cx, pThisKey) ==
  IF ~used_as_prefix(pThisKey) /\ ~used_as_suffix(pThisKey)
    THEN AllowKeyToGoToSystem(s, cx)
    ELSE SaveAndReset(s, cx, pThisKey)

DispatchKey(s, cx, pThisKey) ==
  IF s.pPrefixKey = pThisKey /\ ~cx.key_up
    THEN IF cx.hook = "keybd" /\ as_modifiersLR(pThisKey) # {} THEN AllowKeyToGoToSystem(s, cx) ELSE SuppressThisKey(s, cx)
    ELSE NotRepeat(PrefixUsed(s, cx, pThisKey), cx, pThisKey)

\* From the choice of pThisKey to the end of the procedure
Dispatch(s, cx) == DispatchKey(s, cx, ThisKey(cx.e))


\* ------------------------------------------------------------------------
\* The two hook procedures
\* ------------------------------------------------------------------------
\* The pad_state[] index the prologue's switch(vk) writes (-1: none)
PadIndex(vk) ==
  CASE vk = VK_DELETE \/ vk = VK_DECIMAL -> PAD_DECIMAL
    [] vk = VK_INSERT \/ vk = VK_NUMPAD0 -> PAD_NUMPAD0
    [] vk = VK_END \/ vk = VK_NUMPAD1 -> PAD_NUMPAD1
    [] vk = VK_DOWN \/ vk = VK_NUMPAD2 -> PAD_NUMPAD2
    [] vk = VK_NEXT \/ vk = VK_NUMPAD3 -> PAD_NUMPAD3
    [] vk = VK_LEFT \/ vk = VK_NUMPAD4 -> PAD_NUMPAD4
    [] vk = VK_CLEAR \/ vk = VK_NUMPAD5 -> PAD_NUMPAD5
    [] vk = VK_RIGHT \/ vk = VK_NUMPAD6 -> PAD_NUMPAD6
    [] vk = VK_HOME \/ vk = VK_NUMPAD7 -> PAD_NUMPAD7
    [] vk = VK_UP \/ vk = VK_NUMPAD8 -> PAD_NUMPAD8
    [] vk = VK_PRIOR \/ vk = VK_NUMPAD9 -> PAD_NUMPAD9
    [] OTHER -> -1

\* The disguise_next_*_up flag of a Win or Alt key
DisguiseArmed(s, vk) ==
  CASE vk = VK_LWIN -> s.disguise_next_lwin_up
    [] vk = VK_RWIN -> s.disguise_next_rwin_up
    [] vk = VK_LMENU -> s.disguise_next_lalt_up
    [] vk = VK_RMENU -> s.disguise_next_ralt_up

\* Mutant: pad_state is kept whether Numlock is on or off
UpdatePadStateAnyNumlock(s, e, sc) ==
  IF sc < SC_EXTENDED /\ PadIndex(e.vkCode) # -1
    THEN [s EXCEPT !.pad_state = SetBit(@, PadIndex(e.vkCode), ~e.up)]
    ELSE s

\* The prologue's pad_state update (e.numlock: IsKeyToggledOn(VK_NUMLOCK) when the event arrives)
UpdatePadState(s, e, sc) ==
  IF sc < SC_EXTENDED /\ e.numlock /\ PadIndex(e.vkCode) # -1
    THEN [s EXCEPT !.pad_state = SetBit(@, PadIndex(e.vkCode), ~e.up)]
    ELSE s

\* Mutant: the armed flag is left set
ArmedDisguiseKeepingFlag(s, cx) ==
  SuppressThisKey(KeyEvent(KeyEvent(KeyEvent(s, "KEYDOWN", VK_SHIFT, 0), "KEYUP", cx.vk, cx.sc), "KEYUP", VK_SHIFT, 0), cx)

\* The replacement of a Win/Alt key-up whose disguise was armed by an earlier hotkey
ArmedDisguise(s, cx) ==
  LET vk == cx.vk
      Cleared(t) == [t EXCEPT !.disguise_next_lwin_up = IF vk = VK_LWIN THEN FALSE ELSE @,
                              !.disguise_next_rwin_up = IF vk = VK_RWIN THEN FALSE ELSE @,
                              !.disguise_next_lalt_up = IF vk = VK_MENU \/ vk = VK_LMENU THEN FALSE ELSE @,
                              !.disguise_next_ralt_up = IF vk = VK_RMENU THEN FALSE ELSE @]
  IN SuppressThisKey(KeyEvent(KeyEvent(KeyEvent(Cleared(s), "KEYDOWN", VK_SHIFT, 0), "KEYUP", vk, cx.sc), "KEYUP", VK_SHIFT, 0), cx)

\* Mutant: the engine's own events are dispatched like any other; only what those send in
\* turn is let through at once
RouteOwnEvents(s, cx) ==
  IF cx.e.ignore /\ s.depth > 1 THEN AllowKeyToGoToSystem(s, cx)
  ELSE IF cx.hook = "keybd" /\ cx.key_up /\ cx.vk \in {VK_LWIN, VK_RWIN, VK_LMENU, VK_RMENU} /\ DisguiseArmed(s, cx.vk)
    THEN ArmedDisguise(s, cx)
  ELSE Dispatch(s, cx)

\* After the prologue
Route(s, cx) ==
  LET vk == cx.vk
      armed == cx.key_up /\ ((s.disguise_next_lwin_up /\ vk = VK_LWIN) \/ (s.disguise_next_rwin_up /\ vk = VK_RWIN)
                             \/ (s.disguise_next_lalt_up /\ (vk = VK_LMENU \/ vk = VK_MENU))
                             \/ (s.disguise_next_ralt_up /\ vk = VK_RMENU))
  IN IF cx.e.ignore THEN AllowKeyToGoToSystem(s, cx)
     ELSE IF cx.hook = "keybd" /\ armed THEN ArmedDisguise(s, cx)
     ELSE Dispatch(s, cx)

\* Variant that leaves in the slot the event_type it finds there
KeyHistoryWriteKeepingType(s, e) ==
  IF s.MAX_HISTORY_KEYS = 0
    THEN [s EXCEPT !.event_type = IF e.ignore THEN "i" ELSE " "]
    ELSE [s EXCEPT !.pKeyHistoryCurr = s.g_KeyHistoryNext,
                   !.g_KeyHistoryNext = (@ + 1) % s.MAX_HISTORY_KEYS,
                   !.event_type = IF e.ignore THEN "i" ELSE s.g_KeyHistory[s.g_KeyHistoryNext]]

\* The history slot of the event: pKeyHistoryCurr is the invocation's own pointer to it,
\* event_type is the event_type of the slot it points at
KeyHistoryWrite(s, e) ==
  IF s.MAX_HISTORY_KEYS = 0
    THEN [s EXCEPT !.event_type = IF e.ignore THEN "i" ELSE " "]
    ELSE [s EXCEPT !.pKeyHistoryCurr = s.g_KeyHistoryNext,
                   !.g_KeyHistoryNext = (@ + 1) % s.MAX_HISTORY_KEYS,
                   !.event_type = IF e.ignore THEN "i" ELSE " "]

\* Variant of the heuristic that wants exactly one ALT bit
AltTabMenuSeenOneAlt(s, e) ==
  IF e.vkCode = VK_TAB /\ ~e.up /\ ~s.alt_tab_menu_is_visible
     /\ Cardinality(s.g_modifiersLR_logical \cap {MOD_LALT, MOD_RALT}) = 1
     /\ ~HasControl(s.g_modifiersLR_logical)
    THEN [s EXCEPT !.alt_tab_menu_is_visible = TRUE]
    ELSE s

\* Alt-Tab pressed by the user brings the menu up without the hook having a part in it
AltTabMenuSeen(s, e) ==
  IF e.vkCode = VK_TAB /\ ~e.up /\ ~s.alt_tab_menu_is_visible
     /\ HasAlt(s.g_modifiersLR_logical) /\ ~HasControl(s.g_modifiersLR_logical)
    THEN [s EXCEPT !.alt_tab_menu_is_visible = TRUE]
    ELSE s

LowLevelKeybdProc(s, e) ==
  LET key_up == e.up
      vk == e.vkCode
      sc == EventSc(e)
      cx == [hook |-> "keybd", e |-> e, vk |-> vk, sc |-> sc, key_up |-> key_up]
      History(t) == KeyHistoryWrite(t, e)
      Pad(t) == UpdatePadState(t, e, sc)
      AltTabSeen(t) == AltTabMenuSeen(t, e)
      Down(p) == IF p.phys THEN [p.st EXCEPT !.g_PhysicalKeyState = SetBit(@, vk, ~key_up)] ELSE p.st
      Physical(t) == IF VkAsModifiersLR(vk) # {} THEN t ELSE Down(EventIsPhysical(t, e, key_up))
  IN ReturnFromHook(Route(Physical(AltTabSeen(Pad(History(s)))), cx), cx)

\* Mouse hook
EventIsPhysicalMouse(e) == ~e.injected

LowLevelMouseProc(s, e) ==
  LET cx == [hook |-> "mouse", e |-> e, vk |-> e.vk, sc |-> 0, key_up |-> e.up]
      History(t) == KeyHistoryWrite([t EXCEPT !.g_TimeLastInputPhysical = IF ~e.injected THEN TRUE ELSE @], e)
      Physical(t) == IF EventIsPhysicalMouse(e) THEN [t EXCEPT !.g_PhysicalKeyState = SetBit(@, e.vk, ~e.up)] ELSE t
  IN ReturnFromHook(Route(Physical(History(s)), cx), cx)

\* The file is compiled once for each hook: the procedure the system calls for an event
LowLevelProc(s, e) == IF e.hook = "keybd" THEN LowLevelKeybdProc(s, e) ELSE LowLevelMouseProc(s, e)


\* ------------------------------------------------------------------------
\* The state machine: one step per event the system hands to a hook
\* ------------------------------------------------------------------------
\* The dispatcher's state when a handler starts (now = ticks since the previous keyboard event)
Start(now, numlock) ==
  [g_modifiersLR_logical |-> g_modifiersLR_logical, g_modifiersLR_physical |-> g_modifiersLR_physical,
   g_PhysicalKeyState |-> g_PhysicalKeyState, g_TimeLastInputPhysical |-> FALSE,
   pad_state |-> pad_state, next_phys_shift_down_is_not_phys |-> next_phys_shift_down_is_not_phys,
   prior_vk |-> prior_vk, prior_sc |-> prior_sc, prior_event_was_key_up |-> prior_event_was_key_up,
   prior_event_was_physical |-> prior_event_was_physical, elapsed |-> now,
   prior_modifiersLR_physical |-> prior_modifiersLR_physical, prior_shift_state |-> prior_shift_state,
   prior_lshift_state |-> prior_lshift_state, pPrefixKey |-> pPrefixKey, key |-> key,
   alt_tab_menu_is_visible |-> alt_tab_menu_is_visible,
   disguise_next_lwin_up |-> disguise_next_lwin_up, disguise_next_rwin_up |-> disguise_next_rwin_up,
   disguise_next_lalt_up |-> disguise_next_lalt_up, disguise_next_ralt_up |-> disguise_next_ralt_up,
   numlock |-> numlock, event_type |-> " ", ret |-> "none", verdict |-> "none", depth |-> 0,
   emits |-> <<>>, posts |-> <<>>, calls |-> <<>>, sup_calls |-> <<>>, restored |-> FALSE,
   g_KeyHistory |-> g_KeyHistory, g_KeyHistoryNext |-> g_KeyHistoryNext, pKeyHistoryCurr |-> 0,
   MAX_HISTORY_KEYS |-> C.history]

\* What a handler did, as seen from outside
Outcome(e, before, r, ring_free) ==
  [e |-> e, ring_free |-> ring_free, next_before |-> before.g_KeyHistoryNext,
   history_before |-> before.g_KeyHistory, verdict |-> r.verdict, event_type |-> r.event_type, emits |-> r.emits, posts |-> r.posts,
   calls |-> r.calls, sup_calls |-> r.sup_calls,
   restored |-> r.restored,
   logical_before |-> before.g_modifiersLR_logical, prefix_before |-> before.pPrefixKey,
   key_before |-> before.key, visible_before |-> before.alt_tab_menu_is_visible,
   armed_before |-> {vk \in {VK_LWIN, VK_RWIN, VK_LMENU, VK_RMENU} : DisguiseArmed(before, vk)},
   armed_after |-> {vk \in {VK_LWIN, VK_RWIN, VK_LMENU, VK_RMENU} : DisguiseArmed(r, vk)},
   logical_after |-> r.g_modifiersLR_logical, physical_after |-> r.g_modifiersLR_physical,
   key_after |-> r.key, visible_after |-> r.alt_tab_menu_is_visible]

\* The scenario monitor: the events so far, as long as they follow C.script stage by stage
\* (the events of one stage may come in any order)
NoScenario == [on |-> FALSE, stage |-> 0, done |-> {}, log |-> <<>>]

Follow(e, o) ==
  IF scn.on /\ scn.stage < Len(C.script) /\ e \in C.script[scn.stage + 1] \ scn.done
    THEN IF scn.done \cup {e} = C.script[scn.stage + 1]
           THEN [on |-> TRUE, stage |-> scn.stage + 1, done |-> {}, log |-> Append(scn.log, o)]
           ELSE [on |-> TRUE, stage |-> scn.stage, done |-> scn.done \cup {e}, log |-> Append(scn.log, o)]
    ELSE NoScenario

\* runs holds what the handler left and what it leaves when it is run with a ring in
\* which no slot is written twice
Commit(e, before, runs) ==
  LET r == CHOOSE t \in runs : t.MAX_HISTORY_KEYS = before.MAX_HISTORY_KEYS
      Logic(t) == [f \in DOMAIN t \ {"g_KeyHistory", "g_KeyHistoryNext", "pKeyHistoryCurr", "MAX_HISTORY_KEYS", "event_type"} |-> t[f]]
      o == Outcome(e, before, r, \A t \in runs : Logic(t) = Logic(r))
  IN
  /\ g_modifiersLR_logical' = r.g_modifiersLR_logical
  /\ g_modifiersLR_physical' = r.g_modifiersLR_physical
  /\ g_PhysicalKeyState' = r.g_PhysicalKeyState
  /\ g_TimeLastInputPhysical' = r.g_TimeLastInputPhysical
  /\ pad_state' = r.pad_state
  /\ next_phys_shift_down_is_not_phys' = r.next_phys_shift_down_is_not_phys
  /\ prior_vk' = r.prior_vk
  /\ prior_sc' = r.prior_sc
  /\ prior_event_was_key_up' = r.prior_event_was_key_up
  /\ prior_event_was_physical' = r.prior_event_was_physical
  /\ elapsed' = r.elapsed
  /\ prior_modifiersLR_physical' = r.prior_modifiersLR_physical
  /\ prior_shift_state' = r.prior_shift_state
  /\ prior_lshift_state' = r.prior_lshift_state
  /\ pPrefixKey' = r.pPrefixKey
  /\ key' = r.key
  /\ alt_tab_menu_is_visible' = r.alt_tab_menu_is_visible
  /\ disguise_next_lwin_up' = r.disguise_next_lwin_up
  /\ disguise_next_rwin_up' = r.disguise_next_rwin_up
  /\ disguise_next_lalt_up' = r.disguise_next_lalt_up
  /\ disguise_next_ralt_up' = r.disguise_next_ralt_up
  /\ g_KeyHistory' = IF r.MAX_HISTORY_KEYS = 0 THEN r.g_KeyHistory
                     ELSE [r.g_KeyHistory EXCEPT ![r.pKeyHistoryCurr] = r.event_type]
  /\ g_KeyHistoryNext' = r.g_KeyHistoryNext
  /\ out' = o
  /\ scn' = Follow(e, o)
  /\ UNCHANGED <<cfg, conf>>

NoOutcome == [e |-> [hook |-> "none"], ring_free |-> TRUE, next_before |-> 0, history_before |-> <<>>, verdict |-> "none", event_type |-> " ", emits |-> <<>>, posts |-> <<>>,
              calls |-> <<>>, sup_calls |-> <<>>, restored |-> FALSE, logical_before |-> {}, prefix_before |-> NULL,
              key_before |-> <<>>, visible_before |-> FALSE, armed_before |-> {}, armed_after |-> {},
              logical_after |-> {}, physical_after |-> {}, key_after |-> <<>>, visible_after |-> FALSE]

\* The state the hooks are installed in, for one of the given configurations
InitWith(profiles) ==
  /\ cfg \in profiles
  /\ conf = Profile(cfg)
  /\ g_modifiersLR_logical = {}
  /\ g_modifiersLR_physical = {}
  /\ g_PhysicalKeyState = {}
  /\ g_TimeLastInputPhysical = FALSE
  /\ pad_state = {}
  /\ next_phys_shift_down_is_not_phys = FALSE
  /\ prior_vk = 0
  /\ prior_sc = 0
  /\ prior_event_was_key_up = FALSE
  /\ prior_event_was_physical = FALSE
  /\ elapsed = MaxElapsed
  /\ prior_modifiersLR_physical = {}
  /\ prior_shift_state = FALSE
  /\ prior_lshift_state = FALSE
  /\ pPrefixKey = NULL
  /\ key = [rec \in conf.prefix \cup conf.suffix |-> NoKey]
  /\ alt_tab_menu_is_visible = FALSE
  /\ g_KeyHistory \in [0 .. conf.history - 1 -> {" ", "h"}]
  /\ g_KeyHistoryNext = 0
  /\ disguise_next_lwin_up = FALSE
  /\ disguise_next_rwin_up = FALSE
  /\ disguise_next_lalt_up = FALSE
  /\ disguise_next_ralt_up = FALSE
  /\ out = NoOutcome
  /\ scn = [NoScenario EXCEPT !.on = TRUE]

\* The system calls LowLevelKeybdProc for a keyboard event: pressed by the user or generated by
\* the keyboard driver ("phys"), injected by another program ("inj"), or injected with
\* dwExtraInfo = KEYIGNORE ("ign")
KeybdEvent ==
  \E k \in C.keys, up \in BOOLEAN, origin \in C.origins, dt \in C.dts, numlock \in C.numlock :
    LET e == [hook |-> "keybd", vkCode |-> k.vkCode, scanCode |-> k.scanCode, extended |-> k.extended,
              up |-> up, injected |-> origin # "phys", ignore |-> origin = "ign", dt |-> dt, numlock |-> numlock]
        before == Start(Min(elapsed + dt, MaxElapsed), numlock)
    IN Commit(e, before, {LowLevelProc([before EXCEPT !.MAX_HISTORY_KEYS = n], e) : n \in {C.history, 0}})

\* The system calls LowLevelMouseProc for a button or wheel event (a wheel turn is always a "down")
MouseEvent ==
  \E vk \in C.mouse, up \in BOOLEAN, origin \in C.origins, dt \in C.dts :
    /\ vk \in {VK_WHEEL_DOWN, VK_WHEEL_UP} => ~up
    /\ LET e == [hook |-> "mouse", vk |-> vk, up |-> up, injected |-> origin # "phys", ignore |-> origin = "ign", dt |-> dt]
           before == Start(Min(elapsed + dt, MaxElapsed), TRUE)
       IN Commit(e, before, {LowLevelProc([before EXCEPT !.MAX_HISTORY_KEYS = n], e) : n \in {C.history, 0}})

Next == KeybdEvent \/ MouseEvent

\* One specification per family of configurations
InitS1 == InitWith({"S1"})
SpecS1 == InitS1 /\ [][Next]_vars

InitShift == InitWith({"Shift"})
SpecShift == InitShift /\ [][Next]_vars

InitCAD == InitWith({"CAD"})
SpecCAD == InitCAD /\ [][Next]_vars

RoundTrips == {"RT_WIN", "RT_ALT", "RT_CTRL", "RT_CTRLALT", "RT_WINWIN", "RT_WINALT"}
InitRT == InitWith(RoundTrips)
SpecRT == InitRT /\ [][Next]_vars

InitS2 == InitWith({"S2", "S2_OFF"})
SpecS2 == InitS2 /\ [][Next]_vars

InitPFX == InitWith({"PFX"})
SpecPFX == InitPFX /\ [][Next]_vars

InitAltTab == InitWith({"AltTab"})
SpecAltTab == InitAltTab /\ [][Next]_vars

InitDisguise == InitWith({"RT_WIN", "RT_ALT", "WinPrefix", "WinAltTab"})
SpecDisguise == InitDisguise /\ [][Next]_vars

InitS4 == InitWith({"S4"})
SpecS4 == InitS4 /\ [][Next]_vars

\* Every configuration in which the hooks send key events of their own
SpecEmit == InitWith({"NUM_PFX", "NUM_PFX_ON", "NUM_FORCED", "NUM_SFX", "NUM_NOSUP", "S2", "RT_WIN", "WinAltTab", "AltTab"})
            /\ [][Next]_vars

\* "CapsLock & A", "#a" with "LControl & LWin", and the mouse hotkeys of S4
SpecKeys == InitWith({"S2", "WINSFX", "S4"}) /\ [][Next]_vars

\* "CapsLock & A" as a custom hotkey and as AltTabMenuDismiss
SpecUsed == InitWith({"S2", "DISMISS"}) /\ [][Next]_vars

\* Custom prefixes on the keyboard and on the mouse: CapsLock (NEUTRAL), LControl, NumLock
\* (AlwaysOn), RControl and RShift (each prefix and suffix), MButton & RButton, ~RButton, ^RButton
SpecCases == InitWith({"PFX", "NUM_PFX_ON", "AltTab", "MOUSE"}) /\ [][Next]_vars

\* Toggle keys in NEUTRAL mode as prefixes: CapsLock & A (custom or AltTab), NumLock & A
SpecToggle == InitWith({"PFX", "S2", "CAPS_TAB", "NUM_PFX"}) /\ [][Next]_vars

\* Prefix key-ups and suffix hotkeys: LWin & A with a third key B, LWin & A::AltTab,
\* CapsLock & A with LControl & B, NumLock & A (AlwaysOn), the mouse prefix MButton, the
\* alt-tab pair RControl/RShift, MButton::AltTabMenu with WheelDown::AltTab,
\* CapsLock & A::AltTabMenuDismiss, B & A with ^B::
SpecFire == InitWith({"WIN3", "WinAltTab", "PFX", "NUM_PFX_ON", "MOUSE", "AltTab", "S4", "DISMISS", "OWN_KEY"}) /\ [][Next]_vars

\* Keys that are prefix and suffix with a hotkey of their own: RShift & A with RShift::,
\* B & A with ^B::, CapsLock & A with ^CapsLock:: (NEUTRAL), and the two alt-tab prefixes
SpecOwn == InitWith({"OWN_MOD", "OWN_KEY", "OWN_CAPS", "AltTab"}) /\ [][Next]_vars

\* Hotkeys flagged no-suppress: ~B:: and ~CapsLock:: firing on key-up (B & A, CapsLock & A;
\* CapsLock NEUTRAL or AlwaysOn), ~A:: and ~NumLock:: firing on key-down
SpecNoSuppress == InitWith({"NS_KEY", "NS_CAPS", "NS_CAPS_ON", "NUM_NOSUP"}) /\ [][Next]_vars

\* RControl & RShift::AltTab with RShift & RControl::ShiftAltTab, alone or with the third
\* prefix CapsLock (CapsLock & B), and LWin & A::AltTab
SpecTab == InitWith({"AltTab", "TAB3", "WinAltTab"}) /\ [][Next]_vars

SpecArm == InitWith(RoundTrips \cup {"WIN3", "DISMISS"}) /\ [][Next]_vars

SpecRing == InitWith({"RING1", "RING2", "RING3", "RING_NUM", "RING_TAB", "RING_S4"}) /\ [][Next]_vars

\* A shift key held while a Win or Alt key-up is disguised: #a:: and !a:: (the armed
\* disguise) and LWin & A (the disguise of AllowIt)
SpecHeldShift == InitWith({"RT_WIN_SHIFT", "RT_ALT_SHIFT", "WIN_SHIFT"}) /\ [][Next]_vars

SpecMenu == InitWith({"TABKEY", "S4", "CAPS_TAB"}) /\ [][Next]_vars

\* Dual-state numpad keys and their extended counterparts, Numlock on or off
SpecPad == InitWith({"PAD"}) /\ [][Next]_vars

\* Win-L on Windows XP, no hotkeys
SpecWinL == InitWith({"WINL"}) /\ [][Next]_vars

SpecNum == InitWith({"NUM_PFX", "NUM_PFX_ON", "NUM_FORCED", "NUM_SFX", "NUM_NOSUP"}) /\ [][Next]_vars


\* ------------------------------------------------------------------------
\* Properties
\* ------------------------------------------------------------------------
\* The (vk, up) pairs the latest handler sent with KeyEvent(), in order
Sent(o) == [i \in DOMAIN o.emits |-> <<o.emits[i].vk, o.emits[i].up>>]

Range(f) == {f[i] : i \in DOMAIN f}

IsKeybd(o) == o.e.hook = "keybd"
IsMouse(o) == o.e.hook = "mouse"

\* C1: after every event, for SHIFT, CTRL and ALT the neutral entry of g_PhysicalKeyState is
\* set exactly when the left or the right entry is set.
PhysicalNeutralConsistent ==
  \A trio \in {<<VK_SHIFT, VK_LSHIFT, VK_RSHIFT>>, <<VK_CONTROL, VK_LCONTROL, VK_RCONTROL>>,
               <<VK_MENU, VK_LMENU, VK_RMENU>>} :
    (trio[1] \in g_PhysicalKeyState) <=> (trio[2] \in g_PhysicalKeyState \/ trio[3] \in g_PhysicalKeyState)

\* C2: every call UpdateKeyState(..., aIsSuppressed = true) for a modifier key, down or up,
\* leaves g_modifiersLR_logical as it was.
SuppressedLeavesLogical ==
  \A i \in DOMAIN out.sup_calls : out.sup_calls[i].before = out.sup_calls[i].after

\* A modifier key-down was suppressed while its bit was not in the logical mask
SuppressedModifierDown ==
  \E i \in DOMAIN out.sup_calls :
    /\ ~out.sup_calls[i].up
    /\ ~(VkAsModifiersLR(out.sup_calls[i].vk) \subseteq out.sup_calls[i].before)

\* C6: a non-injected event is classified non-physical by EventIsPhysical only if it is a
\* key-down of LSHIFT or neutral SHIFT and either the flag next_phys_shift_down_is_not_phys
\* was set with no dual-state numpad key down, or the previous event was the key-up of a
\* dual-state numpad key at most 22 ms earlier.
ShiftWorkaroundOnly ==
  \A i \in DOMAIN out.calls :
    LET c == out.calls[i]
    IN (~c.injected /\ ~c.result) =>
         /\ c.vk \in {VK_LSHIFT, VK_SHIFT}
         /\ ~c.up
         /\ \/ c.flag /\ ~c.pad
            \/ c.prior_up /\ c.prior_dual /\ c.elapsed <= SHIFT_KEY_WORKAROUND_TIMEOUT

\* A driver-made shift key-down right after a numpad key-up was classified non-physical
\* without the flag, and one that came later than 22 ms was classified physical
ShiftDownInWindow ==
  \E i \in DOMAIN out.calls :
    LET c == out.calls[i]
    IN ~c.injected /\ ~c.result /\ ~c.flag /\ c.prior_up /\ c.prior_dual

ShiftDownAfterWindow ==
  \E i \in DOMAIN out.calls :
    LET c == out.calls[i]
    IN ~c.injected /\ c.result /\ c.vk = VK_LSHIFT /\ ~c.up /\ ~c.flag /\ c.prior_up /\ c.prior_dual
       /\ c.elapsed > SHIFT_KEY_WORKAROUND_TIMEOUT


\* C3 as stated: the prefix slot changes only by Case 1 (the key-down of a prefix key, which
\* while another prefix is held must not also be a suffix) and by Case 3 (the key-up of the
\* active prefix empties it).
InstalledByCase1 ==
  LET k == ThisKey(out'.e)
  IN ~out'.e.up /\ ~out'.e.ignore /\ used_as_prefix(k) /\ pPrefixKey' = k
     /\ (pPrefixKey = NULL \/ ~used_as_suffix(k))

ClearedByCase3 ==
  out'.e.up /\ ~out'.e.ignore /\ ThisKey(out'.e) = pPrefixKey /\ pPrefixKey' = NULL

PrefixOnlyCase1Case3 ==
  [][pPrefixKey' # pPrefixKey => (InstalledByCase1 \/ ClearedByCase3)]_vars

\* C3: the prefix slot holds one prefix key record or none, and it changes only by Case 1,
\* by Case 3, or by the key-down of a suffix in Case 4, which hands the slot to the first key
\* of the suffix's ModifierVK/ModifierSC list that is down.
ReboundByCase4 ==
  LET k == ThisKey(out'.e)
      holders == {KVK(ModifierVK(k)[i].k) : i \in DOMAIN ModifierVK(k)}
                 \cup {KSC(ModifierSC(k)[i].k) : i \in DOMAIN ModifierSC(k)}
  IN ~out'.e.up /\ ~out'.e.ignore /\ used_as_suffix(k) /\ pPrefixKey # NULL
     /\ pPrefixKey' \in holders /\ key[pPrefixKey'].is_down

PrefixTransitions ==
  [][/\ pPrefixKey' \in C.prefix \cup {NULL}
     /\ pPrefixKey' # pPrefixKey => (InstalledByCase1 \/ ClearedByCase3 \/ ReboundByCase4)]_vars

\* A suffix key-down has replaced one active prefix by another
PrefixRebound ==
  /\ out.e.hook = "keybd" /\ ~out.e.up /\ used_as_suffix(ThisKey(out.e))
  /\ out.prefix_before # NULL /\ pPrefixKey # NULL /\ pPrefixKey # out.prefix_before

\* C4: an event tagged KEYIGNORE, whether it comes from the system or re-entrantly from the
\* engine's own KeyEvent(), passes through, changes no key record and not the prefix slot,
\* and posts nothing.
IgnoredEventsPassUntouched ==
  /\ (out.e.hook # "none" /\ out.e.ignore) =>
       /\ out.verdict = "pass"
       /\ out.key_after = out.key_before
       /\ pPrefixKey = out.prefix_before
       /\ out.posts = <<>>
  /\ \A i \in DOMAIN out.emits :
       /\ out.emits[i].verdict = "pass"
       /\ ~out.emits[i].keys_changed
       /\ ~out.emits[i].prefix_changed
       /\ ~out.emits[i].posted

\* The key-down of a prefix key arrived re-entrantly, tagged KEYIGNORE
IgnoredPrefixDownReentrant ==
  \E i \in DOMAIN out.emits :
    ~out.emits[i].up /\ used_as_prefix(KVK(out.emits[i].vk)) /\ out.emits[i].depth = 1

\* The scenario of the configuration has been played to its end
ScenarioDone == scn.on /\ Len(C.script) > 0 /\ scn.stage = Len(C.script)

\* All messages posted during the scenario
RECURSIVE PostedIn(_)
PostedIn(log) == IF log = <<>> THEN <<>> ELSE PostedIn(SubSeq(log, 1, Len(log) - 1)) \o log[Len(log)].posts

IsModifierEvent(o) == IsKeybd(o) /\ VkAsModifiersLR(o.e.vkCode) # {}

DisguiseTriple(vk) == << <<VK_SHIFT, FALSE>>, <<vk, TRUE>>, <<VK_SHIFT, TRUE>> >>

\* C5 as stated: in the round trip of a hotkey "mods + suffix" one message with its id is
\* posted, both suffix events are suppressed and every modifier event passes unchanged.
RoundTripAsClaimed ==
  (cfg \in RoundTrips /\ ScenarioDone) =>
    /\ PostedIn(scn.log) = << [id |-> 10, extra |-> 0] >>
    /\ \A i \in DOMAIN scn.log :
         IF IsModifierEvent(scn.log[i])
           THEN scn.log[i].verdict = "pass" /\ scn.log[i].emits = <<>>
           ELSE scn.log[i].verdict = "suppress"

\* C5: in the round trip of a hotkey "mods + suffix" one message with its id is posted, both
\* suffix events are suppressed and every modifier key-down passes unchanged; a modifier
\* key-up passes unchanged unless the mask has only WIN keys or only ALT keys: then it is
\* suppressed and replaced by SHIFT down, the key up, SHIFT up.
OnlyWinOrOnlyAlt(mods) == mods \subseteq {MOD_LWIN, MOD_RWIN} \/ mods \subseteq {MOD_LALT, MOD_RALT}

RoundTripWithDisguise ==
  (cfg \in RoundTrips /\ ScenarioDone) =>
    /\ PostedIn(scn.log) = << [id |-> 10, extra |-> 0] >>
    /\ \A i \in DOMAIN scn.log :
         LET o == scn.log[i]
         IN IF ~IsModifierEvent(o) THEN o.verdict = "suppress"
            ELSE IF o.e.up /\ \A h \in C.kvkm : OnlyWinOrOnlyAlt(h.mods)
              THEN o.verdict = "suppress" /\ Sent(o) = DisguiseTriple(o.e.vkCode)
            ELSE o.verdict = "pass" /\ o.emits = <<>>

\* The round trip of a hotkey whose mask is the left WIN key alone has been played
RoundTripDoneWinOnly == cfg = "RT_WIN" /\ ScenarioDone


\* The outcome of the i-th event of the scenario, once it has been played
Played(i) == scn.on /\ Len(scn.log) >= i

RECURSIVE CapsDowns(_)
CapsDowns(log) ==
  IF log = <<>> THEN 0
  ELSE LET o == log[Len(log)]
           real == IF IsKeybd(o) /\ o.e.vkCode = VK_CAPITAL /\ ~o.e.up /\ o.verdict = "pass" THEN 1 ELSE 0
           own == Cardinality({i \in DOMAIN o.emits : o.emits[i].vk = VK_CAPITAL /\ ~o.emits[i].up
                                                       /\ o.emits[i].verdict = "pass"})
       IN CapsDowns(SubSeq(log, 1, Len(log) - 1)) + real + own

\* C8 as stated: in S2 all four events are suppressed, the A key-down posts one message with
\* id 42, and an even number of CapsLock key-downs reaches the system.
S2AsClaimed ==
  (cfg \in {"S2", "S2_OFF"} /\ ScenarioDone) =>
    /\ \A i \in 1..4 : scn.log[i].verdict = "suppress"
    /\ scn.log[2].posts = << [id |-> 42, extra |-> 0] >>
    /\ PostedIn(scn.log) = << [id |-> 42, extra |-> 0] >>
    /\ CapsDowns(scn.log) % 2 = 0

\* C8: in S2 the CapsLock key-down passes when CapsLock's force-toggle setting is NEUTRAL
\* and is suppressed when it is AlwaysOn/AlwaysOff; the A key-down is suppressed and posts
\* one message with id 42; the A key-up and the CapsLock key-up are suppressed; with NEUTRAL
\* the CapsLock key-up is replaced by CapsLock up, down, up, so that an even number of
\* CapsLock key-downs reaches the system either way.
S2ToggleRestored ==
  (cfg \in {"S2", "S2_OFF"} /\ ScenarioDone) =>
    /\ scn.log[1].verdict = (IF ForceToggle(VK_CAPITAL) = "NEUTRAL" THEN "pass" ELSE "suppress")
    /\ \A i \in 2..4 : scn.log[i].verdict = "suppress"
    /\ scn.log[2].posts = << [id |-> 42, extra |-> 0] >>
    /\ PostedIn(scn.log) = << [id |-> 42, extra |-> 0] >>
    /\ Sent(scn.log[4]) = (IF ForceToggle(VK_CAPITAL) = "NEUTRAL"
                             THEN << <<VK_CAPITAL, TRUE>>, <<VK_CAPITAL, FALSE>>, <<VK_CAPITAL, TRUE>> >>
                             ELSE <<>>)
    /\ CapsDowns(scn.log) % 2 = 0

S2DoneNeutral == cfg = "S2" /\ ScenarioDone

\* A disguise is in force for the key-up the latest handler received: the key's
\* disguise_next_*_up flag was set, or the key was released as AS_PREFIX_FOR_HOTKEY
WinAltUp(o) ==
  IsKeybd(o) /\ o.e.up /\ ~o.e.ignore /\ o.e.vkCode \in {VK_LWIN, VK_RWIN, VK_LMENU, VK_RMENU}

DisguiseInForce(o) ==
  /\ WinAltUp(o)
  /\ \/ o.e.vkCode \in o.armed_before
     \/ /\ KVK(o.e.vkCode) \in DOMAIN o.key_before
        /\ o.key_before[KVK(o.e.vkCode)].was_just_used = AS_PREFIX_FOR_HOTKEY

LWinAlone ==
  (cfg \in {"WinPrefix", "WinAltTab"} /\ ScenarioDone) =>
    \A i \in 1..2 : scn.log[i].verdict = "pass" /\ scn.log[i].emits = <<>>

PutDownReleased(o) ==
  LET k == KVK(o.e.vkCode)
      held == k \in DOMAIN o.key_before
  IN (IF held /\ o.key_before[k].it_put_alt_down THEN << <<VK_MENU, TRUE>> >> ELSE <<>>)
     \o (IF held /\ o.key_before[k].it_put_shift_down THEN << <<VK_SHIFT, TRUE>> >> ELSE <<>>)

S4AsClaimed ==
  cfg = "S4" =>
    /\ Played(1) => /\ <<VK_MENU, FALSE>> \in Range(Sent(scn.log[1]))
                    /\ scn.log[1].key_after[KVK(VK_MBUTTON)].it_put_alt_down
    /\ \A i \in 2..3 : Played(i) => Sent(scn.log[i]) = << <<VK_TAB, FALSE>>, <<VK_TAB, TRUE>> >>
    /\ Played(4) => /\ \E vk \in {VK_MENU, VK_LMENU, VK_RMENU} : <<vk, TRUE>> \in Range(Sent(scn.log[4]))
                    /\ ~scn.log[4].visible_after

\* C10: in S4 the MBUTTON down is suppressed, sends ALT down then TAB down and sets
\* alt_tab_menu_is_visible without setting it_put_alt_down; each wheel turn is suppressed and
\* sends TAB down and up; the MBUTTON up is suppressed, sends nothing and leaves the menu
\* visible with ALT logically down; the next MBUTTON down sends ALT up and clears
\* alt_tab_menu_is_visible.
S4MenuStaysUp ==
  cfg = "S4" =>
    /\ \A i \in 1..5 : Played(i) => scn.log[i].verdict = "suppress"
    /\ Played(1) => /\ Sent(scn.log[1]) = << <<VK_MENU, FALSE>>, <<VK_TAB, FALSE>> >>
                    /\ ~scn.log[1].key_after[KVK(VK_MBUTTON)].it_put_alt_down
                    /\ scn.log[1].visible_after
    /\ \A i \in 2..3 : Played(i) => Sent(scn.log[i]) = << <<VK_TAB, FALSE>>, <<VK_TAB, TRUE>> >>
    /\ Played(4) => /\ scn.log[4].emits = <<>>
                    /\ scn.log[4].visible_after
                    /\ MOD_LALT \in scn.log[4].logical_after
    /\ Played(5) => /\ Sent(scn.log[5]) = << <<VK_LMENU, TRUE>> >>
                    /\ ~scn.log[5].visible_after

S4Done == cfg = "S4" /\ ScenarioDone


\* The four events of the Numlock fix
NumlockFour == << <<VK_NUMLOCK, TRUE>>, <<VK_NUMLOCK, FALSE>>, <<VK_NUMLOCK, TRUE>>, <<VK_NUMLOCK, FALSE>> >>

IsNumlock(o) == IsKeybd(o) /\ o.e.vkCode = VK_NUMLOCK

\* C11 as stated: a suppressed Numlock key-down that is not tagged KEYIGNORE makes the engine
\* send exactly NUMLOCK up, down, up, down; a suppressed Numlock key-up and a Numlock event
\* tagged KEYIGNORE send nothing.
NumlockFixAsClaimed ==
  IsNumlock(out) =>
    /\ (~out.e.up /\ ~out.e.ignore /\ out.verdict = "suppress") => Sent(out) = NumlockFour
    /\ ((out.e.up /\ out.verdict = "suppress") \/ out.e.ignore) => out.emits = <<>>

\* What the dispatcher itself sends before it suppresses a Numlock event: the down and up of
\* a no-suppress hotkey on the key-down, the toggle restore on the key-up of a NEUTRAL prefix
\* that has fired a hotkey
NumlockOwnDownAndUp(o) ==
  IF o.posts # <<>> /\ \E h \in C.kvkm : h.k = VK_NUMLOCK /\ NoSuppress(h.id_with_flags)
    THEN << <<VK_NUMLOCK, FALSE>>, <<VK_NUMLOCK, TRUE>> >>
    ELSE <<>>

NumlockToggleBack(o) ==
  IF ForceToggle(VK_NUMLOCK) = "NEUTRAL" /\ KVK(VK_NUMLOCK) \in DOMAIN o.key_before
     /\ o.key_before[KVK(VK_NUMLOCK)].was_just_used = AS_PREFIX_FOR_HOTKEY
    THEN << <<VK_NUMLOCK, TRUE>>, <<VK_NUMLOCK, FALSE>>, <<VK_NUMLOCK, TRUE>> >>
    ELSE <<>>

\* C11: a suppressed Numlock key-down that is not tagged KEYIGNORE ends with the engine
\* sending NUMLOCK up, down, up, down, all tagged KEYIGNORE and none of them sending anything
\* itself; before the four come only the down and up of a no-suppress hotkey.  A suppressed
\* Numlock key-up sends nothing but the toggle restore (up, down, up) of a NEUTRAL prefix
\* that fired a hotkey, and a Numlock event tagged KEYIGNORE sends nothing.
NumlockFixLastFour ==
  IsNumlock(out) =>
    /\ (~out.e.up /\ ~out.e.ignore /\ out.verdict = "suppress") =>
         /\ Sent(out) = NumlockOwnDownAndUp(out) \o NumlockFour
         /\ \A i \in DOMAIN out.emits : out.emits[i].depth = 1 /\ out.emits[i].verdict = "pass"
    /\ (out.e.up /\ ~out.e.ignore /\ out.verdict = "suppress") => Sent(out) = NumlockToggleBack(out)
    /\ out.e.ignore => out.emits = <<>>

\* A Numlock key-down has been suppressed by AllowIt's forced-toggle test
NumlockForcedSuppressed ==
  cfg = "NUM_FORCED" /\ IsNumlock(out) /\ ~out.e.up /\ ~out.e.ignore /\ out.verdict = "suppress"


\* C12: on XP or later, after an 'L' key-down has passed through while the logical mask had
\* only WIN bits (LWIN, RWIN or both), both modifier masks are empty and the
\* g_PhysicalKeyState entries of LWIN, RWIN and 'L' are false.
WinLResetsAll ==
  (IsKeybd(out) /\ out.e.vkCode = VK_L /\ ~out.e.up /\ out.verdict = "pass"
   /\ out.logical_before # {} /\ out.logical_before \subseteq {MOD_LWIN, MOD_RWIN}) =>
    /\ g_modifiersLR_logical = {}
    /\ g_modifiersLR_physical = {}
    /\ g_PhysicalKeyState \cap {VK_LWIN, VK_RWIN, VK_L} = {}


\* C13: every handler returns with the verdict pass or suppress, and every event it sends
\* with KeyEvent() comes back tagged KEYIGNORE one level below the real event and is handled
\* without sending anything (no Numlock fix, no disguise, no toggle restore).
OneLevelOfReentry ==
  out.e.hook # "none" =>
    /\ out.verdict \in {"pass", "suppress"}
    /\ \A i \in DOMAIN out.emits : out.emits[i].depth = 1 /\ out.emits[i].verdict \in {"pass", "suppress"}
    /\ out.e.ignore => out.emits = <<>>

\* A handler has sent a Win or Alt key-up, or a Numlock or CapsLock key-down, of its own
OwnEventsHandled ==
  \E i \in DOMAIN out.emits :
    \/ out.emits[i].up /\ out.emits[i].vk \in {VK_LWIN, VK_MENU}
    \/ ~out.emits[i].up /\ out.emits[i].vk \in {VK_NUMLOCK, VK_CAPITAL}


\* The latest event was the key-up of a Win/Alt key whose disguise was armed: the handler
\* replaced it before reaching the key records
ReplacedByArmedDisguise(o) == IsKeybd(o) /\ o.e.up /\ o.e.vkCode \in o.armed_before

\* C14 as stated: is_down of a key record follows the events of its key that are neither
\* suppressed nor tagged KEYIGNORE, and no other event changes it.
IsDownFollowsPassed ==
  [][\A rec \in DOMAIN key :
       key'[rec].is_down = IF ~out'.e.ignore /\ ThisKey(out'.e) = rec /\ out'.verdict = "pass"
                             THEN ~out'.e.up
                             ELSE key[rec].is_down]_vars

\* C14: is_down of the record of a prefix or suffix key follows the events of its key that
\* are not tagged KEYIGNORE, suppressed or not, except a Win/Alt key-up replaced by an armed
\* disguise; no other event changes it.
IsDownFollowsDispatched ==
  [][\A rec \in DOMAIN key :
       key'[rec].is_down = IF ~out'.e.ignore /\ ThisKey(out'.e) = rec /\ ~ReplacedByArmedDisguise(out')
                             THEN ~out'.e.up
                             ELSE key[rec].is_down]_vars

\* A suppressed key-down has set is_down
SuppressedKeyIsDown ==
  /\ out.e.hook # "none" /\ ~out.e.up /\ ~out.e.ignore /\ out.verdict = "suppress"
  /\ ThisKey(out.e) \in DOMAIN key /\ key[ThisKey(out.e)].is_down
  /\ ~out.key_before[ThisKey(out.e)].is_down


\* The handler fired a hotkey: it posted a hotkey message or performed an alt-tab action
Fired(o) == o.posts # <<>> \/ o.event_type = "h"

\* C15: a key record has was_just_used = AS_PREFIX_FOR_HOTKEY only if a hotkey has fired since
\* the latest key-down of its key: the value is set only by a handler that fires a hotkey,
\* and the key-down of the key itself does not leave it in place unless that handler fires one.
UsedForHotkeyOnlyWhenFired ==
  [][\A rec \in DOMAIN key :
       /\ (key'[rec].was_just_used = AS_PREFIX_FOR_HOTKEY /\ key[rec].was_just_used # AS_PREFIX_FOR_HOTKEY)
            => Fired(out')
       /\ (key'[rec].was_just_used = AS_PREFIX_FOR_HOTKEY /\ ThisKey(out'.e) = rec /\ ~out'.e.up /\ ~out'.e.ignore
           /\ ~key[rec].is_down)
            => Fired(out')]_vars


\* The latest event is one of the keys that pad_state[p] stands for
ForPad(o, p) == IsKeybd(o) /\ PadIndex(o.e.vkCode) = p

NumlockOnNotExtended(o) == o.e.numlock /\ ~o.e.extended

KeyUpWithoutDown(o) ==
  /\ o.e.hook # "none" /\ o.e.up /\ ~o.e.ignore
  /\ ThisKey(o.e) \in DOMAIN o.key_before
  /\ used_as_prefix(ThisKey(o.e)) \/ used_as_suffix(ThisKey(o.e))
  /\ ~o.key_before[ThisKey(o.e)].is_down

\* C17: a key-up of a prefix or suffix key that arrives while the record's is_down is false
\* is passed through, emits nothing and fires no hotkey, whatever the record's was_just_used,
\* it_put_alt_down and it_put_shift_down hold.
KeyUpWithoutDownPassed ==
  KeyUpWithoutDown(out) => out.verdict = "pass" /\ out.emits = <<>> /\ ~Fired(out)


\* The latest event reached Case 1: a key-down, not tagged KEYIGNORE and not the repeat of
\* the active prefix, of a prefix key, while no prefix was active or the key is no suffix
Case1Reached(o) ==
  /\ o.e.hook # "none" /\ ~o.e.up /\ ~o.e.ignore
  /\ used_as_prefix(ThisKey(o.e)) /\ o.prefix_before # ThisKey(o.e)
  /\ o.prefix_before = NULL \/ ~used_as_suffix(ThisKey(o.e))

\* C18: a key-down that reaches Case 1 makes its key the active prefix and sets the key's
\* was_just_used to Unused; on the keyboard it is passed through if and only if the key is a
\* modifier or a toggle key whose force-toggle is NEUTRAL, and suppressed otherwise; on the
\* mouse it is always suppressed.
Case1InstallsPrefix ==
  Case1Reached(out) =>
    /\ pPrefixKey = ThisKey(out.e)
    /\ key[ThisKey(out.e)].was_just_used = UNUSED
    /\ out.verdict = IF IsKeybd(out) /\ (as_modifiersLR(ThisKey(out.e)) # {} \/ ForceToggleOf(ThisKey(out.e)) = "NEUTRAL")
                       THEN "pass" ELSE "suppress"

\* A passed key-down has reset a was_just_used left by the previous press
Case1ResetsUsed ==
  /\ Case1Reached(out) /\ out.verdict = "pass"
  /\ out.key_before[ThisKey(out.e)].was_just_used = AS_PREFIX_FOR_HOTKEY
  /\ key[ThisKey(out.e)].was_just_used = UNUSED


\* The latest event is a key-up that reached the key records: not tagged KEYIGNORE, not
\* replaced by an armed disguise, of a prefix or suffix key
KeyUpDispatched(o) ==
  /\ o.e.hook # "none" /\ o.e.up /\ ~o.e.ignore /\ ~ReplacedByArmedDisguise(o)
  /\ used_as_prefix(ThisKey(o.e)) \/ used_as_suffix(ThisKey(o.e))

\* The latest event reached Case 2: the key-up of a suffix key that was not the active prefix
Case2Reached(o) == KeyUpDispatched(o) /\ used_as_suffix(ThisKey(o.e)) /\ o.prefix_before # ThisKey(o.e)

\* The mouse hook's exception: the key is marked no_mouse_suppress, no modifier is logically
\* down and no prefix is active
MouseNotSuppressed(o) ==
  IsMouse(o) /\ no_mouse_suppress(ThisKey(o.e)) /\ o.logical_before = {} /\ o.prefix_before = NULL

NeutralPrefix(o) ==
  /\ IsKeybd(o) /\ ~o.e.ignore
  /\ used_as_prefix(ThisKey(o.e)) /\ ForceToggleOf(ThisKey(o.e)) = "NEUTRAL"

\* Its key-up reached Case 3 (Case 2 takes the key-up of a suffix that is not the active prefix)
NeutralPrefixUp(o) ==
  NeutralPrefix(o) /\ o.e.up /\ ~(used_as_suffix(ThisKey(o.e)) /\ o.prefix_before # ThisKey(o.e))

\* Key-downs of the event's own key that reached the system: the real one if passed, and
\* those the engine sent
TogglingDowns(o) ==
  (IF ~o.e.up /\ o.verdict = "pass" THEN 1 ELSE 0)
  + Cardinality({i \in DOMAIN o.emits : o.emits[i].vk = o.e.vkCode /\ ~o.emits[i].up /\ o.emits[i].verdict = "pass"})

ToggleTriple(vk) == << <<vk, TRUE>>, <<vk, FALSE>>, <<vk, TRUE>> >>

\* C20: the key-up of a NEUTRAL toggle prefix key whose was_just_used is AS_PREFIX_FOR_HOTKEY
\* is suppressed and the engine sends that key up, down, up, in this order, after the ALT up /
\* SHIFT up of an alt-tab it had started; with AS_PREFIX the key-up is passed and the engine
\* sends nothing but that ALT up / SHIFT up.  Over a press an even number of toggling
\* key-downs reaches the system: one from the key-down that made the key the active prefix,
\* an even number from each repeat of the active prefix, one from the restoring key-up.
ToggleRestoredOnKeyUp ==
  /\ (NeutralPrefixUp(out) /\ out.key_before[ThisKey(out.e)].was_just_used = AS_PREFIX_FOR_HOTKEY) =>
       /\ out.verdict = "suppress"
       /\ Sent(out) = PutDownReleased(out) \o ToggleTriple(out.e.vkCode)
       /\ TogglingDowns(out) = 1
  /\ (NeutralPrefixUp(out) /\ out.key_before[ThisKey(out.e)].was_just_used = AS_PREFIX) =>
       /\ out.verdict = "pass"
       /\ Sent(out) = PutDownReleased(out)
  /\ (NeutralPrefix(out) /\ Case1Reached(out)) => TogglingDowns(out) = 1
  /\ (NeutralPrefix(out) /\ ~out.e.up /\ out.prefix_before = ThisKey(out.e)) => TogglingDowns(out) % 2 = 0

\* C20 as stated: with AS_PREFIX_FOR_HOTKEY the key-up is suppressed and the engine sends
\* the key up, down, up; with AS_PREFIX the key-up is passed and nothing is sent.
ToggleRestoredAsClaimed ==
  /\ (NeutralPrefixUp(out) /\ out.key_before[ThisKey(out.e)].was_just_used = AS_PREFIX_FOR_HOTKEY) =>
       /\ out.verdict = "suppress"
       /\ \E n \in 0..Len(out.emits) : SubSeq(Sent(out), n + 1, Len(out.emits)) = ToggleTriple(out.e.vkCode)
       /\ TogglingDowns(out) = 1
  /\ (NeutralPrefixUp(out) /\ out.key_before[ThisKey(out.e)].was_just_used = AS_PREFIX) =>
       /\ out.verdict = "pass"
       /\ out.emits = <<>>

\* A prefix key that had started an alt-tab has been released and toggled back
ToggleRestoredAfterAltTab ==
  /\ NeutralPrefixUp(out) /\ out.key_before[ThisKey(out.e)].is_down
  /\ out.key_before[ThisKey(out.e)].was_just_used = AS_PREFIX_FOR_HOTKEY
  /\ out.verdict = "suppress" /\ Len(out.emits) = 4


\* The latest event reached Case 3: the key-up of a prefix key that Case 2 did not take
Case3Reached(o) ==
  KeyUpDispatched(o) /\ used_as_prefix(ThisKey(o.e)) /\ ~(used_as_suffix(ThisKey(o.e)) /\ o.prefix_before # ThisKey(o.e))

\* Case 3 for a key that is not a NEUTRAL toggle key and whose was_just_used is not Unused
UsedPrefixUp(o) ==
  /\ Case3Reached(o)
  /\ ~(IsKeybd(o) /\ ForceToggleOf(ThisKey(o.e)) = "NEUTRAL")
  /\ o.key_before[ThisKey(o.e)].was_just_used # UNUSED

IsWinAltVk(vk) == vk \in {VK_LWIN, VK_RWIN, VK_LMENU, VK_RMENU, VK_MENU}

\* C21: in Case 3, for a key that is not a NEUTRAL toggle key and whose was_just_used is not
\* Unused, the key-up of a modifier is never suppressed outright: it is replaced by SHIFT
\* down, the key up, SHIFT up when the key is WIN or ALT and was_just_used is
\* AS_PREFIX_FOR_HOTKEY, and passed through otherwise; the key-up of a non-modifier is
\* suppressed.  Nothing else is sent but the ALT up / SHIFT up of an alt-tab the key started.
UsedPrefixUpVerdict ==
  UsedPrefixUp(out) =>
    IF IsKeybd(out) /\ as_modifiersLR(ThisKey(out.e)) # {}
      THEN IF IsWinAltVk(out.e.vkCode) /\ out.key_before[ThisKey(out.e)].was_just_used = AS_PREFIX_FOR_HOTKEY
             THEN out.verdict = "suppress" /\ Sent(out) = PutDownReleased(out) \o DisguiseTriple(out.e.vkCode)
             ELSE out.verdict = "pass" /\ Sent(out) = PutDownReleased(out)
      ELSE out.verdict = "suppress" /\ (IsKeybd(out) => Sent(out) = PutDownReleased(out))

\* A WIN prefix that only modified a key that is no suffix has been released and passed
UsedWinPrefixPassed ==
  /\ UsedPrefixUp(out) /\ IsKeybd(out) /\ out.e.vkCode = VK_LWIN
  /\ out.key_before[ThisKey(out.e)].was_just_used = AS_PREFIX /\ out.verdict = "pass"


\* The latest event is a key-up, not tagged KEYIGNORE, of a key whose record had
\* it_put_alt_down / it_put_shift_down set
PutAltDownUp(o) ==
  /\ o.e.hook # "none" /\ o.e.up /\ ~o.e.ignore
  /\ ThisKey(o.e) \in DOMAIN o.key_before /\ o.key_before[ThisKey(o.e)].it_put_alt_down

PutShiftDownUp(o) ==
  /\ o.e.hook # "none" /\ o.e.up /\ ~o.e.ignore
  /\ ThisKey(o.e) \in DOMAIN o.key_before /\ o.key_before[ThisKey(o.e)].it_put_shift_down

\* C22: the key-up (not tagged KEYIGNORE) of a key whose record has it_put_alt_down,
\* respectively it_put_shift_down, set sends ALT up, respectively SHIFT up, and clears the
\* flag, so that the ALT or SHIFT the engine pressed is not left down once the key is released.
PutDownKeysReleased ==
  /\ PutAltDownUp(out) =>
       /\ ~key[ThisKey(out.e)].it_put_alt_down
       /\ <<VK_MENU, TRUE>> \in Range(Sent(out))
  /\ PutShiftDownUp(out) =>
       /\ ~key[ThisKey(out.e)].it_put_shift_down
       /\ <<VK_SHIFT, TRUE>> \in Range(Sent(out))


\* The latest event is a key-down, not tagged KEYIGNORE, that was neither taken by Case 1
\* nor the repeat of the active prefix, of a suffix key
SuffixDown(o) ==
  /\ o.e.hook # "none" /\ ~o.e.up /\ ~o.e.ignore
  /\ used_as_suffix(ThisKey(o.e)) /\ ~Case1Reached(o) /\ o.prefix_before # ThisKey(o.e)

\* Entries of the suffix's ModifierVK list whose key was down when the event arrived
HeldEntries(o) ==
  {i \in DOMAIN ModifierVK(ThisKey(o.e)) :
     /\ KVK(ModifierVK(ThisKey(o.e))[i].k) \in DOMAIN o.key_before
     /\ o.key_before[KVK(ModifierVK(ThisKey(o.e))[i].k)].is_down}

FirstHeld(o) == ModifierVK(ThisKey(o.e))[CHOOSE i \in HeldEntries(o) : \A j \in HeldEntries(o) : i <= j]

\* C23: on a suffix key-down, whenever a key of the suffix's ModifierVK list is down, the
\* hotkey of the first such entry fires, that key becomes the active prefix and its
\* was_just_used becomes AS_PREFIX_FOR_HOTKEY.
HeldPrefixSelected ==
  (SuffixDown(out) /\ HeldEntries(out) # {}) =>
    /\ pPrefixKey = KVK(FirstHeld(out).k)
    /\ key[pPrefixKey].was_just_used = AS_PREFIX_FOR_HOTKEY
    /\ Fired(out)
    /\ out.posts # <<>> => out.posts[1].id = HotkeyId(FirstHeld(out).id_with_flags)


\* The latest event is the key-up, having reached the key records, of a key that is both
\* prefix and suffix
OwnKeyUp(o) == KeyUpDispatched(o) /\ used_as_prefix(ThisKey(o.e)) /\ used_as_suffix(ThisKey(o.e))

\* The hotkey of the key itself for the modifiers logically down when the event arrived,
\* the key's own modifier bit left out (again without ALT while the alt-tab menu is up)
OwnMask(o) == o.logical_before \ (IF IsKeybd(o) THEN as_modifiersLR(ThisKey(o.e)) ELSE {})

OwnHotkey(o) ==
  LET vk == ThisKey(o.e)[2]
  IN IF HotkeyId(Kvkm(OwnMask(o), vk)) = HOTKEY_ID_INVALID /\ o.visible_before
       THEN HotkeyId(Kvkm(OwnMask(o) \ {MOD_LALT, MOD_RALT}, vk))
       ELSE HotkeyId(Kvkm(OwnMask(o), vk))

\* The key was the active prefix, was down and modified nothing while it was held
ReleasedUnused(o) ==
  /\ o.prefix_before = ThisKey(o.e)
  /\ o.key_before[ThisKey(o.e)].was_just_used = UNUSED
  /\ o.key_before[ThisKey(o.e)].is_down

\* C24: the key-up of a key that is both prefix and suffix fires the key's own hotkey if and
\* only if the key was the active prefix, its was_just_used is Unused, it was down before
\* the up and a hotkey exists for the logical modifiers without the key's own bit; when
\* none exists, the key-up is passed through for a modifier or a NEUTRAL toggle key and
\* suppressed otherwise.
OwnHotkeyOnKeyUp ==
  OwnKeyUp(out) =>
    /\ Fired(out) <=> (ReleasedUnused(out) /\ OwnHotkey(out) # HOTKEY_ID_INVALID)
    /\ Fired(out) => out.posts = << [id |-> OwnHotkey(out), extra |-> 0] >>
    /\ (ReleasedUnused(out) /\ OwnHotkey(out) = HOTKEY_ID_INVALID) =>
         out.verdict = IF IsKeybd(out) /\ (as_modifiersLR(ThisKey(out.e)) # {} \/ ForceToggleOf(ThisKey(out.e)) = "NEUTRAL")
                         THEN "pass" ELSE "suppress"

\* A modifier that is prefix and suffix has fired its own hotkey on key-up
OwnHotkeyFired ==
  OwnKeyUp(out) /\ Fired(out) /\ as_modifiersLR(ThisKey(out.e)) # {} /\ out.logical_before = {MOD_RSHIFT}


\* Ids of the configured hotkeys that carry the no-suppress flag
NoSuppressIds ==
  {HotkeyId(h.id_with_flags) : h \in {g \in C.kvkm \cup C.kscm \cup Range(C.ModifierVK) \cup Range(C.ModifierSC) :
                                        NoSuppress(g.id_with_flags)}}

\* The latest event, on the keyboard and of a key that is no modifier, fired a hotkey
\* flagged no-suppress
FiredNoSuppress(o) ==
  /\ IsKeybd(o) /\ ~o.e.ignore /\ as_modifiersLR(ThisKey(o.e)) = {}
  /\ o.posts # <<>> /\ o.posts[1].id \in NoSuppressIds

ToggleKeyForced(vk) == ForceToggle(vk) # "NULL" /\ ForceToggle(vk) # "NEUTRAL"

BuiltInIds ==
  {HOTKEY_ID_ALT_TAB, HOTKEY_ID_ALT_TAB_SHIFT, HOTKEY_ID_ALT_TAB_MENU, HOTKEY_ID_ALT_TAB_MENU_DISMISS,
   HOTKEY_ID_ALT_TAB_AND_MENU}

\* The hotkey id Case 4 selects for the latest event, from the state the event arrived in:
\* for a suffix key-down the first held entry of the ModifierVK list if a prefix is active,
\* else the hotkey for the modifier mask; for a key-up the key's own hotkey if the key was
\* released as an unused active prefix that is also a suffix
SelectedId(o) ==
  IF o.e.hook = "none" THEN HOTKEY_ID_INVALID
  ELSE IF ~o.e.up
    THEN IF ~SuffixDown(o) THEN HOTKEY_ID_INVALID
         ELSE IF o.prefix_before # NULL /\ HeldEntries(o) # {} THEN HotkeyId(FirstHeld(o).id_with_flags)
         ELSE OwnHotkey(o)
    ELSE IF OwnKeyUp(o) /\ ReleasedUnused(o) THEN OwnHotkey(o) ELSE HOTKEY_ID_INVALID

\* C26: a message is posted if and only if the hotkey id selected is not a built-in alt-tab
\* id, and it carries that id; a built-in is never posted.  Every key-down that fires a
\* hotkey, posted or built-in, sets the key's down_performed_action; a key-down that is
\* passed through without firing leaves it as it was.
PostedUnlessBuiltIn ==
  /\ out.posts # <<>> <=> SelectedId(out) \notin BuiltInIds \cup {HOTKEY_ID_INVALID}
  /\ out.posts # <<>> => Len(out.posts) = 1 /\ out.posts[1].id = SelectedId(out)
  /\ (out.event_type = "h" /\ out.posts = <<>>) => SelectedId(out) \in BuiltInIds /\ out.emits # <<>>
  /\ (out.e.hook # "none" /\ ~out.e.up /\ Fired(out)) => key[ThisKey(out.e)].down_performed_action
  /\ (out.e.hook # "none" /\ ~out.e.up /\ ~Fired(out) /\ out.verdict = "pass" /\ ThisKey(out.e) \in DOMAIN out.key_before) =>
       key[ThisKey(out.e)].down_performed_action = out.key_before[ThisKey(out.e)].down_performed_action

\* A built-in alt-tab hotkey has been carried out on a key-down without a message
BuiltInNotPosted ==
  /\ out.e.hook # "none" /\ ~out.e.up /\ SelectedId(out) \in BuiltInIds /\ out.event_type = "h"
  /\ out.posts = <<>> /\ out.emits # <<>> /\ key[ThisKey(out.e)].down_performed_action

\* The state at the arrival of a TAB key-down lets the heuristic mark the menu visible
TabWithAlt(logical) == HasAlt(logical) /\ ~HasControl(logical)

\* The emissions of the latest handler whose re-entrant call marked the menu visible
MenuSeenByEmission(o) == {i \in DOMAIN o.emits : o.emits[i].menu_seen}

\* The latest handler fired one of the built-in hotkeys that open the alt-tab menu
MenuOpened(o) ==
  o.e.hook # "none" /\ o.event_type = "h" /\ SelectedId(o) \in {HOTKEY_ID_ALT_TAB_MENU, HOTKEY_ID_ALT_TAB_AND_MENU}

\* C27 as stated: apart from the menu-opening built-in hotkeys, alt_tab_menu_is_visible
\* goes from false to true only on a physical TAB key-down with exactly one ALT bit and
\* no CTRL bit in the logical modifiers.
MenuVisibleAsClaimed ==
  (~out.visible_before /\ out.visible_after /\ ~MenuOpened(out))
    => /\ IsKeybd(out) /\ out.e.vkCode = VK_TAB /\ ~out.e.up /\ ~out.e.injected
       /\ Cardinality(out.logical_before \cap {MOD_LALT, MOD_RALT}) = 1
       /\ ~HasControl(out.logical_before)

\* C27: apart from the menu-opening built-in hotkeys, alt_tab_menu_is_visible goes from
\* false to true only when a TAB key-down of any origin (physical, injected, or sent by
\* the hook itself) arrives while at least one ALT bit and no CTRL bit is set in the
\* logical modifiers; and every such TAB key-down received from outside sets it.
MenuVisibleOnTabWithAlt ==
  /\ (~out.visible_before /\ out.visible_after /\ ~MenuOpened(out))
       => \/ IsKeybd(out) /\ out.e.vkCode = VK_TAB /\ ~out.e.up /\ TabWithAlt(out.logical_before)
          \/ MenuSeenByEmission(out) # {}
  /\ \A i \in MenuSeenByEmission(out) :
       out.emits[i].vk = VK_TAB /\ ~out.emits[i].up /\ TabWithAlt(out.emits[i].logical)
  /\ (IsKeybd(out) /\ out.e.vkCode = VK_TAB /\ ~out.e.up /\ ~out.visible_before /\ TabWithAlt(out.logical_before))
       => out.visible_after

\* An injected TAB key-down arriving with both ALT keys down marks the menu visible
MenuVisibleByInjectedTab ==
  /\ IsKeybd(out) /\ out.e.vkCode = VK_TAB /\ ~out.e.up /\ out.e.injected
  /\ {MOD_LALT, MOD_RALT} \subseteq out.logical_before /\ ~HasControl(out.logical_before)
  /\ ~out.visible_before /\ out.visible_after /\ alt_tab_menu_is_visible

\* The event is of a dual-state numpad key
OnDualStateKey(e) == e.hook = "keybd" /\ IsDualStateNumpadKey(e.vkCode, EventSc(e))

\* The event before e was a physical left or neutral shift event less than 22 ms earlier
PriorShiftInWindow(e) ==
  /\ prior_event_was_physical /\ prior_vk \in {VK_LSHIFT, VK_SHIFT}
  /\ Min(elapsed + e.dt, MaxElapsed) < SHIFT_KEY_WORKAROUND_TIMEOUT

\* The handler armed next_phys_shift_down_is_not_phys
PhantomArmed == ~next_phys_shift_down_is_not_phys /\ next_phys_shift_down_is_not_phys'

\* The two sub-cases of the sentence in which the flag is armed, and its three eligible cases
ClaimedFixIt(e) ==
  OnDualStateKey(e) /\ \/ ~e.up /\ ~prior_event_was_key_up /\ pad_state # {}
                       \/ e.up /\ prior_event_was_key_up

ClaimedEligible(e) == ClaimedFixIt(e) \/ (OnDualStateKey(e) /\ prior_event_was_key_up)

\* C28 as stated: the fix-up restores physical state only after a physical left/neutral
\* shift less than 22 ms ago and on an event of a dual-state numpad key in one of the
\* three listed cases, arms the flag only in the first two, and does neither on an event
\* of a key that is not a dual-state numpad key.
FixUpAsClaimed ==
  [][/\ out'.restored => PriorShiftInWindow(out'.e) /\ ClaimedEligible(out'.e)
     /\ PhantomArmed => PriorShiftInWindow(out'.e) /\ ClaimedFixIt(out'.e)
     /\ ~OnDualStateKey(out'.e) => ~out'.restored /\ ~PhantomArmed]_vars

\* fix_it and the eligibility test as the fix-up of a keyboard event e evaluates them
FixIt(e) ==
  \/ ~prior_event_was_key_up /\ pad_state' # {}
  \/ prior_event_was_key_up /\ e.up /\ OnDualStateKey(e)

Eligible(e) == FixIt(e) \/ (prior_event_was_key_up /\ OnDualStateKey(e))

\* C28: for a keyboard event during which the hook sends nothing, the fix-up restores
\* physical state exactly when the prior event was a physical left or neutral shift less
\* than 22 ms ago and either that shift event was a key-down and some dual-state numpad
\* key is in pad_state (the current event being of any key, up or down), or that shift
\* event was a key-up and the current event is of a dual-state numpad key; it arms the
\* flag in the first case and in the second when the current event is a key-up, and in
\* no other; a mouse event does neither.
FixUpOnEligibleEvent ==
  [][/\ (out'.e.hook = "keybd" /\ out'.emits = <<>>)
          => /\ out'.restored = (PriorShiftInWindow(out'.e) /\ Eligible(out'.e))
             /\ PhantomArmed => PriorShiftInWindow(out'.e) /\ FixIt(out'.e)
             /\ (PriorShiftInWindow(out'.e) /\ FixIt(out'.e)) => next_phys_shift_down_is_not_phys'
     /\ out'.e.hook = "mouse" => ~out'.restored /\ ~PhantomArmed]_vars

\* The fix-up has restored physical state and armed the flag on an event of the right shift
\* key, which is not a dual-state numpad key
FixUpOnOtherKey ==
  /\ IsKeybd(out) /\ out.e.vkCode = VK_RSHIFT /\ out.restored /\ out.emits = <<>>
  /\ next_phys_shift_down_is_not_phys /\ pad_state # {}

\* The disguise flags the latest handler armed
NewlyArmed(o) == o.armed_after \ o.armed_before

\* The modifier bit of a Win or Alt key and the bits of its kind
SideBit(vk) ==
  CASE vk = VK_LWIN -> MOD_LWIN [] vk = VK_RWIN -> MOD_RWIN [] vk = VK_LMENU -> MOD_LALT [] vk = VK_RMENU -> MOD_RALT

KindBits(vk) == IF vk \in {VK_LWIN, VK_RWIN} THEN {MOD_LWIN, MOD_RWIN} ELSE {MOD_LALT, MOD_RALT}

\* The latest event was handled by Case 4: not tagged KEYIGNORE, not replaced by an armed
\* disguise, a key-down of a suffix key or the key-up of a prefix+suffix key released unused
Case4Reached(o) ==
  /\ o.e.hook # "none" /\ ~o.e.ignore /\ ~ReplacedByArmedDisguise(o)
  /\ IF o.e.up THEN OwnKeyUp(o) /\ ReleasedUnused(o) ELSE SuffixDown(o)

\* C29: a disguise flag is armed only by an event in Case 4 for which a hotkey id has been
\* found, only while every bit of logical_mods is a WIN bit (for the WIN flags; an ALT bit
\* for the ALT flags), only for the side whose bit is set, and only if that key is not
\* used_as_prefix; a suffix event for which no hotkey id is found arms nothing.
DisguiseArmedOnlyByHotkey ==
  /\ \A vk \in NewlyArmed(out) :
       /\ Case4Reached(out) /\ SelectedId(out) # HOTKEY_ID_INVALID
       /\ out.logical_before \subseteq KindBits(vk)
       /\ SideBit(vk) \in out.logical_before
       /\ ~used_as_prefix(KVK(vk))
  /\ (Case4Reached(out) /\ SelectedId(out) = HOTKEY_ID_INVALID) => NewlyArmed(out) = {}

\* A hotkey fired with only the left Win key down has armed that key's flag and no other
DisguiseArmedForLWin ==
  /\ Fired(out) /\ Case4Reached(out) /\ out.logical_before = {MOD_LWIN}
  /\ NewlyArmed(out) = {VK_LWIN} /\ disguise_next_lwin_up

\* The slots the latest handler wrote: its own and one for each event it sent
SlotsWritten(o) == {(o.next_before + j) % C.history : j \in 0 .. Len(o.emits)}

\* C30: the key history does not affect logic: whatever the ring holds and whatever its
\* size (1, 2 or 3 here), each handler returns the verdict, sends the events, posts the
\* messages and leaves every engine variable as it does with a ring in which no slot is
\* written twice during the event; the write index stays within [0, MAX_HISTORY_KEYS),
\* advances by one per event received or sent and wraps, and the slots not written keep
\* what they held.
HistoryDoesNotAffectLogic ==
  C.history > 0 =>
    /\ out.ring_free
    /\ g_KeyHistoryNext \in 0 .. C.history - 1
    /\ DOMAIN g_KeyHistory = 0 .. C.history - 1
    /\ out.e.hook # "none" =>
         /\ g_KeyHistoryNext = (out.next_before + 1 + Len(out.emits)) % C.history
         /\ \A i \in DOMAIN g_KeyHistory \ SlotsWritten(out) : g_KeyHistory[i] = out.history_before[i]

\* A hotkey fired on the key-up of the right Alt key; the three events sent for the
\* disguise went round a ring of two slots, so that the slot of the key-up, marked 'h',
\* was written again by the second of them and ends as 's'
HistoryWrapped ==
  /\ C.history = 2 /\ IsKeybd(out) /\ out.e.vkCode = VK_RMENU /\ out.e.up
  /\ out.posts # <<>> /\ Len(out.emits) = 3 /\ out.ring_free
  /\ g_KeyHistory[out.next_before] = "s"
  /\ g_KeyHistoryNext = out.next_before

\* The hotkey of the right Alt key fired on its key-up while the alt-tab menu was up: the
\* handler read 'h' in the slot of the key-up
HistoryReadByAltUp ==
  /\ C.history > 0 /\ IsKeybd(out) /\ out.e.vkCode = VK_RMENU /\ out.e.up
  /\ out.visible_before /\ out.posts # <<>> /\ out.ring_free

\* the logical modifier state around the i-th stretch of the handler's own code: before its
\* first emission (i = 1), between two emissions, after the last one (i = Len + 1)
OwnStep(o, i) ==
  << IF i = 1 THEN o.logical_before ELSE o.emits[i - 1].logical_left,
     IF i = Len(o.emits) + 1 THEN o.logical_after ELSE o.emits[i].logical >>

OwnSteps(o) == 1 .. Len(o.emits) + 1

\* a real keyboard event that ended with the suppress verdict
RealSuppressed == IsKeybd(out) /\ ~out.e.ignore /\ out.verdict = "suppress"

\* the key-up of a Win or Alt key replaced by the three events of AllowIt (not by the armed disguise)
DisguisedInAllowIt ==
  /\ RealSuppressed /\ out.e.up /\ IsWinAltVk(out.e.vkCode) /\ ~ReplacedByArmedDisguise(out)
  /\ Len(out.emits) >= 3
  /\ SubSeq(Sent(out), Len(out.emits) - 2, Len(out.emits)) = DisguiseTriple(out.e.vkCode)

\* C31 as stated: a real keyboard event that is suppressed changes logical_mods only inside its emissions
SuppressVerdictLeavesLogicalAsClaimed ==
  RealSuppressed => \A i \in OwnSteps(out) : OwnStep(out, i)[1] = OwnStep(out, i)[2]

\* C31: a real keyboard event that is suppressed changes logical_mods only inside its emissions,
\* except the Win/Alt key-up that AllowIt replaces by a disguise: UpdateKeyState has then already
\* removed the key's own bit before the SHIFT down of the disguise is sent, and nothing else
SuppressVerdictLeavesLogical ==
  RealSuppressed =>
    \A i \in OwnSteps(out) :
      OwnStep(out, i)[2] = IF DisguisedInAllowIt /\ i = Len(out.emits) - 2
                             THEN OwnStep(out, i)[1] \ VkAsModifiersLR(out.e.vkCode)
                             ELSE OwnStep(out, i)[1]

\* C31 witness: a held Win/Alt key whose key-up is replaced in AllowIt, its bit gone before the SHIFT down
SuppressedUpClearedOwnBit ==
  /\ DisguisedInAllowIt
  /\ VkAsModifiersLR(out.e.vkCode) \subseteq out.logical_before
  /\ VkAsModifiersLR(out.e.vkCode) \cap out.emits[Len(out.emits) - 2].logical = {}

\* C32: an injected event, and every emission of the engine, leaves g_modifiersLR_physical and
\* g_PhysicalKeyState as they were.
InjectedLeavesPhysical ==
  [][/\ \A i \in DOMAIN out'.emits : ~out'.emits[i].physical_changed
     /\ (out'.e.injected /\ out'.emits = <<>>) =>
          (g_modifiersLR_physical' = g_modifiersLR_physical /\ g_PhysicalKeyState' = g_PhysicalKeyState)]_vars

\* C32: an injected key-down arrived and the physical state was put back to the snapshot
InjectedRestoredPhysical ==
  IsKeybd(out) /\ out.e.injected /\ ~out.e.ignore /\ out.restored /\ out.emits = <<>>

\* a modifier key event handled without emissions: EventIsPhysical is called by
\* UpdateModifierState and again at the end of UpdateKeyState
ClassifiedTwice(o) ==
  IsKeybd(o) /\ VkAsModifiersLR(o.e.vkCode) # {} /\ o.emits = <<>> /\ Len(o.calls) = 2

\* C33: the classification stored in prior_event_was_physical is the one that was used to
\* update the physical modifier state of the same event.
PriorClassificationAgrees ==
  ClassifiedTwice(out) => (out.calls[2].result = out.calls[1].result /\ prior_event_was_physical = out.calls[1].result)

\* C33: a shift-down was taken as driver-generated for the physical state and recorded as physical
PhantomShiftRecordedPhysical ==
  /\ ClassifiedTwice(out) /\ ~out.e.up /\ ~out.e.injected
  /\ ~out.calls[1].result /\ prior_event_was_physical /\ g_TimeLastInputPhysical

\* C34: the key-up of a dual-state numpad key (not its extended counterpart) clears the
\* pad_state entry of that key, whatever the Numlock state when it arrives.
PadStateClearedByKeyUp ==
  [][\A p \in PAD_DECIMAL..PAD_NUMPAD9 :
       (ForPad(out', p) /\ out'.e.up /\ ~out'.e.extended) => p \notin pad_state']_vars

\* C34: the numpad key was released while Numlock was off and its pad_state entry is still set
PadStateStuckAfterKeyUp ==
  /\ ForPad(out, PAD_NUMPAD1) /\ out.e.up /\ ~out.e.extended /\ ~out.e.numlock /\ ~out.e.injected
  /\ PAD_NUMPAD1 \in pad_state

\* the i-th and j-th events of the scenario are the down that fired a hotkey and the up of
\* one press of a mouse button that is a suffix and no prefix
MousePress(i, j) ==
  LET d == scn.log[i]
      u == scn.log[j]
  IN /\ i < j /\ IsMouse(d) /\ IsMouse(u) /\ ~d.e.up /\ u.e.up /\ d.e.vk = u.e.vk
     /\ used_as_suffix(ThisKey(d.e)) /\ ~used_as_prefix(ThisKey(d.e))
     /\ d.posts # <<>>
     /\ \A k \in i + 1 .. j - 1 : ~(IsMouse(scn.log[k]) /\ scn.log[k].e.vk = d.e.vk)

\* C35: on the mouse path the down that fired a hotkey and the up of one press of a pure
\* suffix button get the same verdict, whatever keyboard events come between them.
MousePressSameVerdict ==
  scn.on => \A i, j \in DOMAIN scn.log : MousePress(i, j) => scn.log[i].verdict = scn.log[j].verdict

\* C35: the down was suppressed and the up of the same press passed
MouseUpPassedAfterSuppressedDown ==
  scn.on /\ \E i, j \in DOMAIN scn.log :
    MousePress(i, j) /\ scn.log[i].verdict = "suppress" /\ scn.log[j].verdict = "pass"

\* C35: the down passed and the up of the same press was suppressed
MouseUpSuppressedAfterPassedDown ==
  scn.on /\ \E i, j \in DOMAIN scn.log :
    MousePress(i, j) /\ scn.log[i].verdict = "pass" /\ scn.log[j].verdict = "suppress"

\* a real keyboard event of a key that is a suffix and no prefix
PureSuffixEvent(o) ==
  IsKeybd(o) /\ ~o.e.ignore /\ used_as_suffix(ThisKey(o.e)) /\ ~used_as_prefix(ThisKey(o.e))

\* C36: on the keyboard path the key-up of a key that is a suffix and no prefix is suppressed
\* if and only if the latest key-down of that key was suppressed (stated for a key-up that
\* directly follows that key-down).
KeyUpFollowsLatestDown ==
  [][(/\ PureSuffixEvent(out) /\ PureSuffixEvent(out')
      /\ ThisKey(out.e) = ThisKey(out'.e) /\ ~out.e.up /\ out'.e.up)
       => ((out'.verdict = "suppress") <=> (out.verdict = "suppress"))]_vars

\* C36: a repeated key-down of a pure suffix found no hotkey and passed while
\* down_performed_action was still set from the first key-down
RepeatedDownPassedAfterFiring ==
  /\ PureSuffixEvent(out) /\ ~out.e.up /\ out.verdict = "pass" /\ out.posts = <<>>
  /\ out.key_before[ThisKey(out.e)].down_performed_action
  /\ out.key_after[ThisKey(out.e)].down_performed_action

\* C37: every event, down or up, of a toggle key whose force-toggle is not NEUTRAL is
\* suppressed unless it is tagged KEYIGNORE, and passed if it is.
ForcedToggleKeyVerdict ==
  (IsKeybd(out) /\ ForcedToggleEvenIfIgnored(out.e)) =>
    out.verdict = IF out.e.ignore THEN "pass" ELSE "suppress"

\* C37: the key-up of a forced toggle key that is neither prefix nor suffix (the dispatcher
\* lets it go to the system) ends suppressed
ForcedKeyUpSuppressed ==
  /\ IsKeybd(out) /\ ForcedToggleEvenIfIgnored(out.e) /\ ~out.e.ignore /\ out.e.up
  /\ ~used_as_prefix(ThisKey(out.e)) /\ ~used_as_suffix(ThisKey(out.e))
  /\ out.verdict = "suppress"

\* C37: an event of a forced toggle key tagged KEYIGNORE passed
ForcedKeyIgnoredPassed ==
  IsKeybd(out) /\ ForcedToggleEvenIfIgnored(out.e) /\ out.e.ignore /\ out.verdict = "pass"

\* a real key-down on the keyboard of a key that is no modifier and not the active prefix,
\* arriving while a prefix is active
PressedWhilePrefixActive(o) ==
  /\ IsKeybd(o) /\ ~o.e.ignore /\ ~o.e.up
  /\ o.prefix_before # NULL /\ o.prefix_before # ThisKey(o.e)
  /\ as_modifiersLR(ThisKey(o.e)) = {}

\* a real key-down on the keyboard of the active prefix itself
RepeatOfActivePrefix(o) ==
  IsKeybd(o) /\ ~o.e.ignore /\ ~o.e.up /\ o.prefix_before # NULL /\ o.prefix_before = ThisKey(o.e)

\* C38: a real key-down of a non-modifier key other than the active prefix, arriving while a
\* prefix is active, leaves that prefix's was_just_used at AS_PREFIX or more, whether or not
\* the key belongs to a hotkey; the key-up of that prefix that follows fires nothing; and a
\* repeated key-down of the active prefix changes neither its was_just_used, its is_down nor
\* the prefix slot.
PressMarksPrefixUsed ==
  [][/\ PressedWhilePrefixActive(out') => key'[out'.prefix_before].was_just_used >= AS_PREFIX
     /\ (/\ PressedWhilePrefixActive(out) /\ IsKeybd(out') /\ ~out'.e.ignore /\ out'.e.up
         /\ ThisKey(out'.e) = out.prefix_before) => ~Fired(out')
     /\ RepeatOfActivePrefix(out') =>
          /\ pPrefixKey' = pPrefixKey
          /\ key'[pPrefixKey].was_just_used = key[pPrefixKey].was_just_used
          /\ key'[pPrefixKey].is_down = key[pPrefixKey].is_down]_vars

\* C38 witness: a key that belongs to no hotkey was pressed while an unused prefix that is
\* also a suffix was active, and the prefix is now marked AS_PREFIX
NonHotkeyPressMarkedPrefix ==
  /\ PressedWhilePrefixActive(out)
  /\ ~used_as_prefix(ThisKey(out.e)) /\ ~used_as_suffix(ThisKey(out.e))
  /\ used_as_suffix(out.prefix_before)
  /\ out.key_before[out.prefix_before].was_just_used = UNUSED
  /\ out.key_after[out.prefix_before].was_just_used = AS_PREFIX

\* C38: the active prefix repeated
ActivePrefixRepeated ==
  RepeatOfActivePrefix(out) /\ out.key_before[ThisKey(out.e)].was_just_used = UNUSED

\* a real Win/Alt key-up that was replaced by SHIFT down, the key up, SHIFT up (either path)
DisguisedWinAltUp(o) ==
  /\ IsKeybd(o) /\ ~o.e.ignore /\ o.e.up /\ IsWinAltVk(o.e.vkCode) /\ o.verdict = "suppress"
  /\ Len(o.emits) >= 3
  /\ SubSeq(Sent(o), Len(o.emits) - 2, Len(o.emits)) = DisguiseTriple(o.e.vkCode)

\* C39: a disguised Win/Alt key-up leaves the LSHIFT and RSHIFT bits of the logical state as
\* they were before the event, and the key's own bit is cleared in the logical and in the
\* physical state.
DisguiseKeepsShiftState ==
  DisguisedWinAltUp(out) =>
    /\ out.logical_after \cap {MOD_LSHIFT, MOD_RSHIFT} = out.logical_before \cap {MOD_LSHIFT, MOD_RSHIFT}
    /\ VkAsModifiersLR(out.e.vkCode) \cap out.logical_after = {}
    /\ VkAsModifiersLR(out.e.vkCode) \cap out.physical_after = {}

\* C39: the user was holding the left shift key and the disguise released it logically
DisguiseReleasedHeldShift ==
  /\ DisguisedWinAltUp(out)
  /\ MOD_LSHIFT \in out.logical_before /\ MOD_LSHIFT \notin out.logical_after
  /\ VK_LSHIFT \in g_PhysicalKeyState

\* the record of the active prefix has is_down set
SlotKeyIsDown == pPrefixKey # NULL => key[pPrefixKey].is_down

\* a held key that is a prefix and no suffix keeps the slot occupied
HeldPrefixKeepsSlot ==
  (\E k \in DOMAIN key : used_as_prefix(k) /\ ~used_as_suffix(k) /\ key[k].is_down) => pPrefixKey # NULL

\* C40: the prefix slot agrees with the key records: if the slot is occupied the active
\* prefix's record has is_down set, and if a key that is a prefix and no suffix has is_down
\* set then the slot is occupied.
PrefixSlotAgreesWithRecords == SlotKeyIsDown /\ HeldPrefixKeepsSlot

\* C40: the active prefix was released while another prefix key was held, and the slot is empty
SlotEmptyWhilePrefixHeld ==
  /\ IsKeybd(out) /\ out.e.up /\ ~out.e.ignore /\ out.prefix_before = ThisKey(out.e)
  /\ pPrefixKey = NULL
  /\ \E k \in DOMAIN key : k # ThisKey(out.e) /\ used_as_prefix(k) /\ ~used_as_suffix(k) /\ key[k].is_down
====
